---- MODULE Spec2Model ----
(***************************************************************************)
(* CinciGrid: the view pipeline (global search, column search, active      *)
(* filters, sorting, pagination) and the row-selection state of the grid   *)
(* widget, as a state machine.  JavaScript strings are sequences of one-   *)
(* character strings, JavaScript values are tagged records, row objects    *)
(* are identities (so that two structurally equal rows stay distinct).     *)
(***************************************************************************)
EXTENDS Integers, Sequences, FiniteSets, TLC

(***************************************************************************)
(* Bounds of the model.                                                    *)
(***************************************************************************)
\* largest page size passed to setPageSize
MaxPageSize == 1
\* the page index is kept within 1 - IndexSlack .. 1 + MaxRows
IndexSlack == 1

\* number of operations of a session
MaxSteps == 7

\* default page size set by the constructor
DefaultPageSize == 10

(***************************************************************************)
(* JavaScript values and strings.                                          *)
(***************************************************************************)
Str(s) == [t |-> "str", s |-> s, n |-> 0]
Num(k) == [t |-> "num", s |-> <<>>, n |-> k]
Null == [t |-> "null", s |-> <<>>, n |-> 0]
Undefined == [t |-> "undef", s |-> <<>>, n |-> 0]
Bool(b) == [t |-> "bool", s |-> <<>>, n |-> IF b THEN 1 ELSE 0]
\* the k-th array and the k-th plain object a caller passes
Arr(k) == [t |-> "array", s |-> <<>>, n |-> k]
Obj(k) == [t |-> "object", s |-> <<>>, n |-> k]

\* v == null
IsNullish(v) == v.t \in {"null", "undef"}

SeqRange(s) == {s[i] : i \in DOMAIN s}

SetMin(S) == CHOOSE x \in S : \A y \in S : x <= y
SetMax(S) == CHOOSE x \in S : \A y \in S : x >= y

\* UTF-16 code units of the characters that occur in the model
CharCode(c) ==
    CASE c = " " -> 32 [] c = "/" -> 47
      [] c = "0" -> 48 [] c = "1" -> 49 [] c = "2" -> 50 [] c = "3" -> 51
      [] c = "4" -> 52 [] c = "5" -> 53 [] c = "6" -> 54 [] c = "7" -> 55
      [] c = "8" -> 56 [] c = "9" -> 57
      [] c = "<" -> 60 [] c = ">" -> 62
      [] c = "A" -> 65 [] c = "B" -> 66 [] c = "E" -> 69 [] c = "K" -> 75
      [] c = "a" -> 97 [] c = "b" -> 98 [] c = "e" -> 101 [] c = "k" -> 107
      [] c = "l" -> 108
      [] OTHER -> 0

LowerChar(c) ==
    CASE c = "A" -> "a" [] c = "B" -> "b" [] c = "E" -> "e" [] c = "K" -> "k"
      [] OTHER -> c

\* String.prototype.toLowerCase
toLowerCase(s) == [i \in DOMAIN s |-> LowerChar(s[i])]

\* String.prototype.trim
trim(s) ==
    LET keep == {i \in DOMAIN s : s[i] # " "}
    IN IF keep = {} THEN <<>> ELSE SubSeq(s, SetMin(keep), SetMax(keep))

\* String.prototype.includes
includes(text, term) ==
    \E i \in 0..(Len(text) - Len(term)) : SubSeq(text, i + 1, i + Len(term)) = term

DigitChar(d) ==
    CASE d = 0 -> "0" [] d = 1 -> "1" [] d = 2 -> "2" [] d = 3 -> "3" [] d = 4 -> "4"
      [] d = 5 -> "5" [] d = 6 -> "6" [] d = 7 -> "7" [] d = 8 -> "8" [] OTHER -> "9"

RECURSIVE Digits(_)
Digits(k) == IF k < 10 THEN <<DigitChar(k)>> ELSE Digits(k \div 10) \o <<DigitChar(k % 10)>>

\* String(v)
String(v) ==
    CASE v.t = "str" -> v.s
      [] v.t = "num" -> IF v.n < 0 THEN <<"-">> \o Digits(-v.n) ELSE Digits(v.n)
      [] v.t = "null" -> <<"n", "u", "l", "l">>
      [] OTHER -> <<"u", "n", "d", "e", "f", "i", "n", "e", "d">>

\* the result of parseInt: NaN, or an integer
NaN == [nan |-> TRUE, n |-> 0]
Int32(k) == [nan |-> FALSE, n |-> k]
isNaN(num) == num.nan

DecimalDigits == {"0", "1", "2", "3", "4", "5", "6", "7", "8", "9"}

\* the string without its leading white space
RECURSIVE TrimStart(_)
TrimStart(s) == IF s # <<>> /\ Head(s) = " " THEN TrimStart(Tail(s)) ELSE s

\* the longest prefix of s made of decimal digits
RECURSIVE LeadingDigits(_)
LeadingDigits(s) ==
    IF s # <<>> /\ Head(s) \in DecimalDigits
    THEN <<Head(s)>> \o LeadingDigits(Tail(s))
    ELSE <<>>

\* the number written by a string of decimal digits
RECURSIVE DigitsValue(_)
DigitsValue(ds) ==
    IF ds = <<>> THEN 0
    ELSE 10 * DigitsValue(SubSeq(ds, 1, Len(ds) - 1)) + (CharCode(ds[Len(ds)]) - 48)

\* the number of a sign and the digits read after it; NaN without a digit
SignedValue(sign, ds) == IF ds = <<>> THEN NaN ELSE Int32(sign * DigitsValue(ds))

\* the digits read after the sign
DigitsRead(sign, rest) ==
    CHOOSE num \in {SignedValue(sign, ds) : ds \in {LeadingDigits(rest)}} : TRUE

\* parseInt of a string that starts with no white space: an optional sign,
\* then the leading decimal digits; NaN when there is none
ParseSigned(str) ==
    IF str # <<>> /\ Head(str) = "-" THEN DigitsRead(0 - 1, Tail(str))
    ELSE IF str # <<>> /\ Head(str) = "+" THEN DigitsRead(1, Tail(str))
    ELSE DigitsRead(1, str)

\* parseInt(v), radix 10
parseInt(v) == CHOOSE num \in {ParseSigned(str) : str \in {TrimStart(String(v))}} : TRUE

\* parseFloat(v): the values of the model have no fraction and no exponent, and
\* on those it reads the sign and the leading decimal digits
parseFloat(v) == CHOOSE num \in {ParseSigned(str) : str \in {TrimStart(String(v))}} : TRUE

\* (sum / count).toFixed(2) for sum >= 0 and count > 0: the quotient rounded to
\* the nearest hundredth, written with two decimals
toFixed2(sum, count) ==
    Digits(((200 * sum + count) \div (2 * count)) \div 100)
        \o <<".">>
        \o <<DigitChar((((200 * sum + count) \div (2 * count)) % 100) \div 10),
              DigitChar(((200 * sum + count) \div (2 * count)) % 10)>>

\* $("<div>").html(html).text(): the text outside the tags
RECURSIVE StripTags(_, _)
StripTags(s, inTag) ==
    IF s = <<>> THEN <<>>
    ELSE IF inTag THEN StripTags(Tail(s), Head(s) # ">")
    ELSE IF Head(s) = "<" THEN StripTags(Tail(s), TRUE)
    ELSE <<Head(s)>> \o StripTags(Tail(s), FALSE)

\* Boolean(v), as used by .filter(Boolean)
Truthy(v) ==
    CASE v.t = "str" -> v.s # <<>>
      [] v.t = "num" -> v.n # 0
      [] v.t = "bool" -> v.n = 1
      [] v.t \in {"array", "object"} -> TRUE
      [] OTHER -> FALSE

(***************************************************************************)
(* Row objects.  A row is an object identity; RowTable gives its fields.   *)
(* Rows 1 and 4 are structurally equal but distinct objects; row 3 has a   *)
(* null age and row 5 has no age.                                          *)
(***************************************************************************)
RowTable ==
    <<[name |-> Str(<<"A", "l">>), gender |-> Str(<<"E">>), age |-> Num(7), v |-> Num(10)],
      [name |-> Str(<<"a", "b">>), gender |-> Str(<<"K">>), age |-> Num(12),
       v |-> Str(<<"x">>)],
      [name |-> Str(<<"B", "k">>), gender |-> Str(<<"E">>), age |-> Null, v |-> Num(20)],
      [name |-> Str(<<"A", "l">>), gender |-> Str(<<"E">>), age |-> Num(7), v |-> Num(10)],
      [name |-> Str(<<"B">>), gender |-> Str(<<"K">>), v |-> Str(<<" ", "5", "k">>)]>>

RowIds == DOMAIN RowTable

\* row[key]
RowField(row, key) ==
    IF key \in DOMAIN RowTable[row] THEN RowTable[row][key] ELSE Undefined

\* Array.prototype.indexOf on an array of row objects (0-based, -1 when absent)
indexOf(arr, row) ==
    IF \E i \in DOMAIN arr : arr[i] = row
    THEN SetMin({i \in DOMAIN arr : arr[i] = row}) - 1
    ELSE -1

(***************************************************************************)
(* Column settings.  Function-valued options are named functions of the    *)
(* library below; "none" is an absent option.                              *)
(***************************************************************************)
FnNames == {"nameGender", "boldName", "ageOf"}

ApplyFn(fn, row) ==
    CASE fn = "nameGender" ->
            Str(String(RowField(row, "name")) \o <<" ">> \o String(RowField(row, "gender")))
      [] fn = "boldName" ->
            Str(<<"<", "b", ">">> \o String(RowField(row, "name")) \o <<"<", "/", "b", ">">>)
      [] OTHER -> RowField(row, "age")

\* the settings object stored by setColumn, from the options given
ColSettings(visible, sortable, filterable, searchable, searchSource, formatter, filterSource, sortSource) ==
    [visible |-> visible, sortable |-> sortable, filterable |-> filterable,
     searchable |-> searchable, searchSource |-> searchSource, formatter |-> formatter,
     filterSource |-> filterSource, sortSource |-> sortSource,
     aggregate |-> "none", aggregateLabel |-> <<>>]

\* the settings object of a column given the options aggregate and aggregateLabel
WithAggregate(col, aggregate, aggregateLabel) ==
    [col EXCEPT !.aggregate = aggregate, !.aggregateLabel = aggregateLabel]

NoKey == "(null)"

\* an object without keys
EmptyMap == [k \in {} |-> 0]

VARIABLES
    data,               \* this.data: the raw array of row objects
    totalCount,         \* this.totalCount
    usePagination,      \* this.usePagination
    index,              \* this.index: the page index
    pageSize,           \* this.pageSize
    _currentViewData,   \* this._currentViewData: rows of the last render
    _currentViewIndices,\* this._currentViewIndices: their raw indices
    enableSelection,    \* this.enableSelection
    selectedRows,       \* this.selectedRows: set of raw indices
    enableGlobalSearchBar, \* this.enableGlobalSearchBar
    globalSearch,       \* this.globalSearch
    columnSettings,     \* this.columnSettings: key -> settings
    sortKey,            \* this.sortKey (NoKey for null)
    sortOrder,          \* this.sortOrder
    activeFilters,      \* this.activeFilters: key -> list of accepted values
    columnSearches,     \* this.columnSearches: key -> term
    dom,                \* the controls built by the last render
    lastOp,             \* the name of the last operation
    steps,              \* number of operations so far
    engine,             \* the Array.prototype.sort of the browser that runs the page
    pager,              \* the state of a PaginationModule and what it has called
    actionColumns,      \* this.actionColumns: the action definitions, in order
    buttons,            \* the action buttons of the table body and their click handlers
    options,            \* the display fields: this.tableId, this.showRowNumbers, ...
    call                \* the last call of a setter: its arguments, whether it threw

vars == <<data, totalCount, usePagination, index, pageSize, _currentViewData,
          _currentViewIndices, enableSelection, selectedRows, enableGlobalSearchBar,
          globalSearch, columnSettings, sortKey, sortOrder, activeFilters,
          columnSearches, dom, lastOp, steps, engine, pager, actionColumns, buttons,
          options, call>>

\* no setter has been called
NoCall == [op |-> "none", args |-> <<>>, threw |-> FALSE]

\* the display fields after the constructor; the three fields written without
\* a check hold JavaScript values
DefaultOptions ==
    [tableId |-> <<>>,
     tableClasses |-> <<"t", "a", "b", "l", "e", " ", "t", "a", "b", "l", "e", "-", "s", "t", "r", "i", "p", "e", "d", " ", "t", "a", "b", "l", "e", "-", "b", "o", "r", "d", "e", "r", "e", "d", " ", "t", "a", "b", "l", "e", "-", "h", "o", "v", "e", "r">>,
     showTitle |-> FALSE,
     tableTitle |-> <<>>,
     showRowNumbers |-> Bool(FALSE),
     globalSearchPlaceholder |-> Str(<<"T", "a", "b", "l", "o", "d", "a", " ", "a", "r", "a", ".", ".", ".">>),
     headerContainerStyle |-> <<"b", "a", "c", "k", "g", "r", "o", "u", "n", "d", "-", "c", "o", "l", "o", "r", ":", " ", "l", "i", "g", "h", "t", "b", "l", "u", "e", ";">>,
     footerContainerStyle |-> <<"b", "a", "c", "k", "g", "r", "o", "u", "n", "d", "-", "c", "o", "l", "o", "r", ":", " ", "l", "i", "g", "h", "t", "b", "l", "u", "e", ";">>,
     totalCountInfo |-> Bool(FALSE)]

\* no action button has been built: made counts the buttons built so far, btn
\* maps each button that is in the table or has an invocation in flight to its
\* state, logged counts the errors written to the console by the click
\* handlers and uncaught the errors that left a handler
NoActionButtons == [made |-> 0, btn |-> <<>>, logged |-> 0, uncaught |-> 0]

\* no PaginationModule has been constructed
NoPager == <<>>

(***************************************************************************)
(* The view pipeline.  Each stage reads the widget state and takes the     *)
(* rows of the previous stage, as the private methods do.                  *)
(***************************************************************************)
\* String(v ?? "")
TextOf(v) == IF IsNullish(v) THEN <<>> ELSE String(v)

getCellSearchableText(row, key) ==
    IF key \notin DOMAIN columnSettings THEN <<>>
    ELSE IF columnSettings[key].searchSource \in FnNames
    THEN TextOf(ApplyFn(columnSettings[key].searchSource, row))
    ELSE IF columnSettings[key].formatter \in FnNames
    THEN StripTags(TextOf(ApplyFn(columnSettings[key].formatter, row)), FALSE)
    ELSE TextOf(RowField(row, key))

\* a faulty global search: it asks for searchable columns, not visible ones
applyGlobalSearch_searchable(rows) ==
    IF globalSearch = <<>> \/ trim(globalSearch) = <<>> THEN rows
    ELSE LET term == toLowerCase(globalSearch)
             Keep(row) ==
                 \E key \in DOMAIN columnSettings :
                     /\ columnSettings[key].searchable
                     /\ includes(toLowerCase(getCellSearchableText(row, key)), term)
         IN SelectSeq(rows, Keep)

applyGlobalSearch(rows) ==
    IF globalSearch = <<>> \/ trim(globalSearch) = <<>> THEN rows
    ELSE LET term == toLowerCase(globalSearch)
             Keep(row) ==
                 \E key \in DOMAIN columnSettings :
                     /\ columnSettings[key].visible
                     /\ includes(toLowerCase(getCellSearchableText(row, key)), term)
         IN SelectSeq(rows, Keep)

\* a faulty column search: one matching column is enough
applyColumnSearches_anyTerm(rows) ==
    IF DOMAIN columnSearches = {} THEN rows
    ELSE LET Keep(row) ==
                 \E key \in DOMAIN columnSearches :
                     \/ columnSearches[key] = <<>>
                     \/ includes(toLowerCase(getCellSearchableText(row, key)),
                                 toLowerCase(columnSearches[key]))
         IN SelectSeq(rows, Keep)

applyColumnSearches(rows) ==
    IF DOMAIN columnSearches = {} THEN rows
    ELSE LET Keep(row) ==
                 \A key \in DOMAIN columnSearches :
                     \/ columnSearches[key] = <<>>
                     \/ includes(toLowerCase(getCellSearchableText(row, key)),
                                 toLowerCase(columnSearches[key]))
         IN SelectSeq(rows, Keep)

\* the value a row is filtered by: filterSource(row) when it is a function, else row[key]
FilterValue(col, row, key) ==
    IF col.filterSource \in FnNames THEN ApplyFn(col.filterSource, row) ELSE RowField(row, key)

\* a faulty filter stage: an option function of the column is ignored
filterRows_rawField(filters, rows) ==
    IF DOMAIN filters = {} THEN rows
    ELSE LET Keep(row) ==
                 \A key \in DOMAIN filters :
                     \/ filters[key] = <<>>
                     \/ RowField(row, key) \in SeqRange(filters[key])
         IN SelectSeq(rows, Keep)

\* the body of #applyActiveFilters, on the filters object `filters`
filterRows(filters, rows) ==
    IF DOMAIN filters = {} THEN rows
    ELSE LET Keep(row) ==
                 \A key \in DOMAIN filters :
                     \/ filters[key] = <<>>
                     \/ FilterValue(columnSettings[key], row, key) \in SeqRange(filters[key])
         IN SelectSeq(rows, Keep)

\* a faulty stage 3: it filters the raw data, not the rows of the stage before
applyActiveFilters_rawData(rows) == filterRows(activeFilters, data)

applyActiveFilters(rows) == filterRows(activeFilters, rows)

getCellSortableValue(row, key) ==
    IF key \notin DOMAIN columnSettings THEN RowField(row, key)
    ELSE IF columnSettings[key].sortSource \in FnNames
    THEN ApplyFn(columnSettings[key].sortSource, row)
    ELSE IF columnSettings[key].sortSource \in DOMAIN RowTable[row]
    THEN RowField(row, columnSettings[key].sortSource)
    ELSE IF columnSettings[key].searchSource \in FnNames
    THEN ApplyFn(columnSettings[key].searchSource, row)
    ELSE IF columnSettings[key].filterSource \in FnNames
    THEN ApplyFn(columnSettings[key].filterSource, row)
    ELSE IF columnSettings[key].filterSource \in DOMAIN RowTable[row]
    THEN RowField(row, columnSettings[key].filterSource)
    ELSE IF columnSettings[key].formatter \in FnNames
    THEN Str(StripTags(TextOf(ApplyFn(columnSettings[key].formatter, row)), FALSE))
    ELSE RowField(row, key)

\* a < b on strings: code-unit order
RECURSIVE StrLess(_, _)
StrLess(a, b) ==
    IF b = <<>> THEN FALSE
    ELSE IF a = <<>> THEN TRUE
    ELSE IF CharCode(Head(a)) # CharCode(Head(b)) THEN CharCode(Head(a)) < CharCode(Head(b))
    ELSE StrLess(Tail(a), Tail(b))

\* a < b for the non-null values of the model (a string against a number is
\* compared as numbers, and a string that is no number compares false)
JsLess(a, b) ==
    IF a.t = "str" /\ b.t = "str" THEN StrLess(a.s, b.s)
    ELSE IF a.t = "num" /\ b.t = "num" THEN a.n < b.n
    ELSE FALSE

\* a faulty comparator: null values follow the sort order like the others
compareValues_nullsByOrder(valA, valB) ==
    IF IsNullish(valA) /\ IsNullish(valB) THEN 0
    ELSE IF IsNullish(valA) THEN (IF sortOrder = "asc" THEN 1 ELSE -1)
    ELSE IF IsNullish(valB) THEN (IF sortOrder = "asc" THEN -1 ELSE 1)
    ELSE IF JsLess(valA, valB) THEN (IF sortOrder = "asc" THEN -1 ELSE 1)
    ELSE IF JsLess(valB, valA) THEN (IF sortOrder = "asc" THEN 1 ELSE -1)
    ELSE 0

\* the comparator's result on the two sortable values
compareValues(valA, valB) ==
    IF IsNullish(valA) THEN 1
    ELSE IF IsNullish(valB) THEN -1
    ELSE IF JsLess(valA, valB) THEN (IF sortOrder = "asc" THEN -1 ELSE 1)
    ELSE IF JsLess(valB, valA) THEN (IF sortOrder = "asc" THEN 1 ELSE -1)
    ELSE 0

\* the comparator given to Array.prototype.sort by #applySorting
compareRows(a, b) ==
    compareValues(getCellSortableValue(a, sortKey), getCellSortableValue(b, sortKey))

Reverse(s) == [i \in DOMAIN s |-> s[Len(s) + 1 - i]]

\* Array.prototype.sort for short arrays: the initial run is found (and
\* reversed when strictly descending), the rest is inserted by binary search
EndsRun(order, descending) ==
    (descending /\ order >= 0) \/ (~descending /\ order < 0)

RECURSIVE RunEnd(_, _, _)
RunEnd(arr, i, descending) ==
    IF i > Len(arr) THEN i - 1
    ELSE IF EndsRun(compareRows(arr[i], arr[i - 1]), descending) THEN i - 1
    ELSE RunEnd(arr, i + 1, descending)

RECURSIVE InsertPos(_, _, _, _)
InsertPos(arr, pivot, left, right) ==
    IF left >= right THEN left
    ELSE IF compareRows(pivot, arr[left + ((right - left) \div 2) + 1]) < 0
    THEN InsertPos(arr, pivot, left, left + ((right - left) \div 2))
    ELSE InsertPos(arr, pivot, left + ((right - left) \div 2) + 1, right)

\* arr with arr[start] moved to the 0-based position left
InsertAt(arr, start, left) ==
    SubSeq(arr, 1, left) \o <<arr[start]>> \o SubSeq(arr, left + 1, start - 1)
        \o SubSeq(arr, start + 1, Len(arr))

RECURSIVE BinaryInsertionSort(_, _)
BinaryInsertionSort(arr, start) ==
    IF start > Len(arr) THEN arr
    ELSE CHOOSE sorted \in
             {BinaryInsertionSort(InsertAt(arr, start, left), start + 1) :
                  left \in {InsertPos(arr, arr[start], 0, start - 1)}} : TRUE

\* the array with its initial run made ascending
MakeAscending(arr, run, descending) ==
    IF descending THEN Reverse(SubSeq(arr, 1, run)) \o SubSeq(arr, run + 1, Len(arr)) ELSE arr

\* the sort once the direction of the initial run is known
SortRun(arr, descending) ==
    CHOOSE sorted \in
        {BinaryInsertionSort(MakeAscending(arr, run, descending), run + 1) :
             run \in {RunEnd(arr, 3, descending)}} : TRUE

\* the sort of an engine that looks for an initial run and inserts the rest by
\* binary search; the comparator gets (later element, earlier element)
RunSort(arr) ==
    IF Len(arr) < 2 THEN arr
    ELSE CHOOSE sorted \in
             {SortRun(arr, descending) :
                  descending \in {compareRows(arr[2], arr[1]) < 0}} : TRUE

\* the 0-based place of item among arr[1..j], looked for from the right; the
\* comparator gets (earlier element, later element)
RECURSIVE ShiftPos(_, _, _)
ShiftPos(arr, item, j) ==
    IF j = 0 THEN 0
    ELSE IF compareRows(arr[j], item) > 0 THEN ShiftPos(arr, item, j - 1)
    ELSE j

\* the sort of an engine that sorts short arrays by straight insertion
RECURSIVE InsertionSort(_, _)
InsertionSort(arr, start) ==
    IF start > Len(arr) THEN arr
    ELSE CHOOSE sorted \in
             {InsertionSort(InsertAt(arr, start, left), start + 1) :
                  left \in {ShiftPos(arr, arr[start], start - 1)}} : TRUE

\* the sorts of the engines; they agree when the comparator is consistent and
\* may differ when it is not, where the language leaves the order to the engine
Engines == {"runs", "insertion"}

sort(arr) == IF engine = "runs" THEN RunSort(arr) ELSE InsertionSort(arr, 2)

applySorting(rows) ==
    IF sortKey = NoKey THEN rows ELSE CHOOSE sorted \in {sort(arr) : arr \in {rows}} : TRUE

\* Array.prototype.slice(start, end)
slice(arr, start, end) ==
    LET len == Len(arr)
        from == IF start < 0 THEN (IF len + start < 0 THEN 0 ELSE len + start)
                ELSE (IF start > len THEN len ELSE start)
        to == IF end < 0 THEN (IF len + end < 0 THEN 0 ELSE len + end)
              ELSE (IF end > len THEN len ELSE end)
    IN SubSeq(arr, from + 1, to)

\* a faulty pagination: the page index is taken as 0-based
applyPagination_zeroBased(rows) ==
    IF ~usePagination THEN rows
    ELSE slice(rows, index * pageSize, (index + 1) * pageSize)

applyPagination(rows) ==
    IF ~usePagination THEN rows
    ELSE slice(rows, (index - 1) * pageSize, index * pageSize)

\* the rows after stage 4, before pagination
FilteredSorted ==
    applySorting(applyActiveFilters(applyColumnSearches(applyGlobalSearch(data))))

\* a faulty #getPagedData: it counts the rows of the page
getPagedData_pageCount ==
    CHOOSE paged \in {[rows |-> page, totalCount |-> Len(page)] :
                         page \in {applyPagination(FilteredSorted)}} : TRUE

\* #getPagedData: the value it returns (rows) and the value it stores in
\* this.totalCount
getPagedData ==
    CHOOSE paged \in {[rows |-> applyPagination(filteredData), totalCount |-> Len(filteredData)] :
                         filteredData \in {FilteredSorted}} : TRUE

\* getTotalCount()
getTotalCount == totalCount

\* a faulty #getTotalPages: without the fallback to 1
getTotalPages_ceilOnly == (totalCount + pageSize - 1) \div pageSize

\* Math.ceil(this.totalCount / this.pageSize) || 1
getTotalPages ==
    LET pages == (totalCount + pageSize - 1) \div pageSize
    IN IF pages = 0 THEN 1 ELSE pages

(***************************************************************************)
(* Inputs of the model.                                                    *)
(***************************************************************************)
\* arrays given to setData
DataArrays == {<<1, 2, 3>>, <<3, 1>>}

\* columns registered by setColumn
ColumnCatalog ==
    [gender |-> ColSettings(TRUE, TRUE, TRUE, TRUE, "none", "none", "none", "none")]

\* texts typed into the global search box and into a column search box
GlobalTerms == {<<>>, <<" ", "e">>}
ColumnTerms == {<<>>, <<"K">>}

\* largest page index reached with the next button
MaxIndex == 3

(***************************************************************************)
(* The controls of the rendered table.                                     *)
(***************************************************************************)
\* no column has an aggregate: #buildFooter returns null
NoFooter == [k \in {} |-> <<>>]

\* no info text
NoInfo == [shown |-> FALSE, total |-> 0, count |-> 0, page |-> 0, pages |-> 0]

NoDom ==
    [rendered |-> FALSE, selection |-> FALSE, selAllChecked |-> FALSE,
     selAllIndeterminate |-> FALSE, selAllDisabled |-> FALSE, rowChecked |-> {},
     searchBar |-> FALSE, resetDisabled |-> FALSE, footer |-> FALSE, current |-> 1,
     totalPages |-> 1, cols |-> EmptyMap, tfoot |-> NoFooter, rowNumbers |-> <<>>,
     info |-> NoInfo]

\* the global search of #buildFooter
footerGlobalSearch(rows) ==
    IF globalSearch # <<>> /\ trim(globalSearch) # <<>>
    THEN SelectSeq(rows,
             LAMBDA row :
                 \E key \in DOMAIN columnSettings :
                     /\ columnSettings[key].visible
                     /\ includes(toLowerCase(getCellSearchableText(row, key)),
                                 toLowerCase(globalSearch)))
    ELSE rows

\* the column searches of #buildFooter
footerColumnSearches(rows) ==
    IF DOMAIN columnSearches # {}
    THEN SelectSeq(rows,
             LAMBDA row :
                 \A key \in DOMAIN columnSearches :
                     \/ columnSearches[key] = <<>>
                     \/ includes(toLowerCase(getCellSearchableText(row, key)),
                                 toLowerCase(columnSearches[key])))
    ELSE rows

\* the active filters of #buildFooter
footerActiveFilters(rows) ==
    IF DOMAIN activeFilters # {}
    THEN SelectSeq(rows,
             LAMBDA row :
                 \A key \in DOMAIN activeFilters :
                     \/ activeFilters[key] = <<>>
                     \/ FilterValue(columnSettings[key], row, key)
                            \in SeqRange(activeFilters[key]))
    ELSE rows

\* a faulty #buildFooter: the aggregates are given the sorted rows
allFilteredData_sorted == FilteredSorted

\* allFilteredData of #buildFooter
allFilteredData == footerActiveFilters(footerColumnSearches(footerGlobalSearch(data)))

\* the rows whose value under key parses to a number
NumericRows(rows, key) ==
    SelectSeq(rows, LAMBDA row : ~isNaN(parseFloat(RowField(row, key))))

\* rows.map(row => parseFloat(row[key])).filter(v => !isNaN(v))
NumericValues(rows, key) ==
    CHOOSE values \in {[i \in DOMAIN kept |-> parseFloat(RowField(kept[i], key)).n] :
                           kept \in {NumericRows(rows, key)}} : TRUE

\* values.reduce((a, b) => a + b, 0), over the first n values
RECURSIVE SumTo(_, _)
SumTo(values, n) == IF n = 0 THEN 0 ELSE SumTo(values, n - 1) + values[n]

Sum(values) == SumTo(values, Len(values))

\* the aggregate functions given to setColumn: rows => rows.length, and
\* rows => rows.map(r => r.name).join(",")
AggregateFns == {"rowCount", "joinNames"}

\* rows.map(r => r.name).join(","), over the first n rows
RECURSIVE JoinNamesTo(_, _)
JoinNamesTo(rows, n) ==
    IF n = 0 THEN <<>>
    ELSE IF n = 1 THEN TextOf(RowField(rows[1], "name"))
    ELSE JoinNamesTo(rows, n - 1) \o <<",">> \o TextOf(RowField(rows[n], "name"))

\* the value an aggregate function returns for the array rows
ApplyAggregateFn(fn, rows) ==
    IF fn = "joinNames" THEN JoinNamesTo(rows, Len(rows)) ELSE Digits(Len(rows))

\* a faulty aggregate: "count" counts the rows
AggregateResult_countsRows(aggregate, values, rows) ==
    CASE aggregate = "sum" -> String(Num(Sum(values)))
      [] aggregate = "avg" ->
            IF Len(values) # 0 THEN toFixed2(Sum(values), Len(values)) ELSE <<"0">>
      [] aggregate = "count" -> Digits(Len(rows))
      [] aggregate \in AggregateFns -> ApplyAggregateFn(aggregate, rows)
      [] OTHER -> <<>>

\* the result of the aggregate of a column over rows, as the text of the cell
AggregateResult(aggregate, values, rows) ==
    CASE aggregate = "sum" -> String(Num(Sum(values)))
      [] aggregate = "avg" ->
            IF Len(values) # 0 THEN toFixed2(Sum(values), Len(values)) ELSE <<"0">>
      [] aggregate = "count" -> Digits(Len(values))
      [] aggregate \in AggregateFns -> ApplyAggregateFn(aggregate, rows)
      [] OTHER -> <<>>

\* the aggregate of a column over rows, with its label
LabelledResult(col, key, rows) ==
    CHOOSE text \in {IF col.aggregateLabel # <<>>
                     THEN col.aggregateLabel \o <<":", " ">> \o result
                     ELSE result :
                         result \in {AggregateResult(col.aggregate, values, rows) :
                                         values \in {NumericValues(rows, key)}}} : TRUE

\* the text of the footer cell of a visible column, over rows
FooterCell(col, key, rows) ==
    IF col.aggregate = "none" THEN <<>> ELSE LabelledResult(col, key, rows)

\* the footer cells of the visible columns, over rows
FooterCells(rows) ==
    IF \A key \in DOMAIN columnSettings : columnSettings[key].aggregate = "none"
    THEN NoFooter
    ELSE [key \in {k \in DOMAIN columnSettings : columnSettings[k].visible} |->
              FooterCell(columnSettings[key], key, rows)]

\* a faulty #buildFooter: the aggregates of the rows of the page
buildFooter_pageData ==
    CHOOSE tfoot \in {FooterCells(rows) : rows \in {_currentViewData}} : TRUE

\* #buildFooter
buildFooter ==
    CHOOSE tfoot \in {FooterCells(rows) : rows \in {allFilteredData}} : TRUE

\* number of entries of a list of indices that are selected
SelectedCount(indices, selected) == Cardinality({i \in DOMAIN indices : indices[i] \in selected})

\* #buildHeaderSelection: the state given to the select-all checkbox
buildHeaderSelection(currentViewIndices) ==
    LET selectedCount == SelectedCount(currentViewIndices, selectedRows)
        allSelected == Len(currentViewIndices) > 0 /\ selectedCount = Len(currentViewIndices)
        partiallySelected == selectedCount > 0 /\ ~allSelected
    IN [checked |-> allSelected, indeterminate |-> partiallySelected,
        disabled |-> Len(currentViewIndices) = 0]

\* a faulty #updateSelectAllState: "indeterminate" whenever a row is selected
updateSelectAllState_anySelected(d, selected) ==
    IF ~d.selection THEN d
    ELSE [d EXCEPT !.selAllChecked =
                       Len(_currentViewIndices) > 0
                           /\ SelectedCount(_currentViewIndices, selected) = Len(_currentViewIndices),
                   !.selAllIndeterminate = SelectedCount(_currentViewIndices, selected) > 0]

\* #updateSelectAllState on the controls d, with the selection `selected`
updateSelectAllState(d, selected) ==
    IF ~d.selection THEN d
    ELSE IF Len(_currentViewIndices) = 0
    THEN [d EXCEPT !.selAllChecked = FALSE, !.selAllIndeterminate = FALSE]
    ELSE LET selectedCount == SelectedCount(_currentViewIndices, selected)
             allSelected == selectedCount = Len(_currentViewIndices)
             partiallySelected == selectedCount > 0 /\ ~allSelected
         IN [d EXCEPT !.selAllChecked = allSelected, !.selAllIndeterminate = partiallySelected]

\* isDefaultState of render: the reset button is disabled in this state
isDefaultState ==
    /\ globalSearch = <<>>
    /\ DOMAIN activeFilters = {}
    /\ DOMAIN columnSearches = {}
    /\ sortKey = NoKey
    /\ sortOrder = "asc"
    /\ index = 1

\* #buildBodyRowNumbers: the number shown in front of a row of the page
buildBodyRowNumbers(row, pageData) ==
    IF usePagination
    THEN (index - 1) * pageSize + indexOf(pageData, row) + 1
    ELSE indexOf(pageData, row) + 1

\* #builInfo: the numbers X, Y, A and B of the text "Toplam X kayıttan Y tanesi
\* gösteriliyor (Sayfa A/B)."
builInfo ==
    [shown |-> TRUE,
     total |-> totalCount,
     count |-> SetMin({(index - 1) * pageSize + 1 + pageSize - 1, totalCount})
                   - ((index - 1) * pageSize + 1) + 1,
     page |-> index,
     pages |-> getTotalPages]

\* #buildFooterContainer: whether a container is built, and its info text
buildFooterContainer ==
    IF ~usePagination /\ ~Truthy(options.totalCountInfo)
    THEN [present |-> FALSE, info |-> NoInfo]
    ELSE [present |-> TRUE,
          info |-> IF Truthy(options.totalCountInfo) THEN builInfo ELSE NoInfo]

\* the footer container render appends: only if (usePagination && totalCount > 0)
footerContainerOfRender ==
    IF usePagination /\ totalCount > 0 THEN buildFooterContainer
    ELSE [present |-> FALSE, info |-> NoInfo]

\* the controls render builds from the state left by #getPagedData
BuildDom ==
    LET head == buildHeaderSelection(_currentViewIndices)
        footer == footerContainerOfRender.present
    IN [rendered |-> TRUE,
        info |-> footerContainerOfRender.info,
        selection |-> enableSelection,
        selAllChecked |-> enableSelection /\ head.checked,
        selAllIndeterminate |-> enableSelection /\ head.indeterminate,
        selAllDisabled |-> enableSelection /\ head.disabled,
        rowChecked |-> IF enableSelection
                       THEN SeqRange(_currentViewIndices) \cap selectedRows ELSE {},
        searchBar |-> enableGlobalSearchBar,
        resetDisabled |-> isDefaultState,
        footer |-> footer,
        current |-> IF footer THEN index ELSE 1,
        totalPages |-> IF footer THEN getTotalPages ELSE 1,
        cols |-> columnSettings,
        tfoot |-> buildFooter,
        rowNumbers |-> IF Truthy(options.showRowNumbers)
                       THEN [i \in DOMAIN _currentViewData |->
                                buildBodyRowNumbers(_currentViewData[i], _currentViewData)]
                       ELSE <<>>]

\* faulty raw indices: a row is found by the values of its fields
ViewIndices_structural(rows, raw) ==
    [i \in DOMAIN rows |->
        SetMin({k \in DOMAIN raw : RowTable[raw[k]] = RowTable[rows[i]]}) - 1]

\* the raw indices of the rows of a page
ViewIndices(rows, raw) ==
    LET found == [i \in DOMAIN rows |-> indexOf(raw, rows[i])]
        Present(i) == i # -1
    IN SelectSeq(found, Present)

\* a button of an action column as #buildBodyActionColumn builds it for a row:
\* inflight counts the invocations of onClick that have not finished, calls the
\* invocations so far, sawEnabled tells that onClick ran while the button was
\* enabled
NewButton(row, action) ==
    [row |-> row, action |-> action, attached |-> TRUE, disabled |-> FALSE, inflight |-> 0,
     calls |-> 0, sawEnabled |-> FALSE]

\* the buttons after the body is rebuilt for rows: the buttons of the old body
\* leave the document, and those with an invocation in flight live on in the
\* closure of their handler; every row gets one new button per action
buildBodyActionColumns(old, rows, actions) ==
    [old EXCEPT
        !.made = old.made + Len(rows) * Len(actions),
        !.btn = [id \in {i \in DOMAIN old.btn : old.btn[i].inflight > 0}
                         \cup (old.made + 1)..(old.made + Len(rows) * Len(actions)) |->
                    IF id <= old.made
                    THEN [old.btn[id] EXCEPT !.attached = FALSE]
                    ELSE NewButton(rows[((id - old.made - 1) \div Len(actions)) + 1],
                                   ((id - old.made - 1) % Len(actions)) + 1)]]

\* render(), on the state the handler has just written
Render ==
    /\ engine' = engine
    /\ options' = options
    /\ \E paged \in {getPagedData'} :
           /\ totalCount' = paged.totalCount
           /\ _currentViewData' = paged.rows
           /\ _currentViewIndices' = ViewIndices(paged.rows, data')
           /\ buttons' = buildBodyActionColumns(buttons, paged.rows, actionColumns)
           /\ dom' = BuildDom'

\* the operation op has run
Did(op) ==
    /\ lastOp' = op /\ steps' = steps + 1 /\ engine' = engine /\ pager' = pager
    /\ UNCHANGED <<actionColumns, options, call>>

\* m with m[key] = value
Put(m, key, value) == [k \in DOMAIN m \cup {key} |-> IF k = key THEN value ELSE m[k]]
\* m after delete m[key]
Delete(m, key) == [k \in DOMAIN m \ {key} |-> m[k]]

pipelineState == <<globalSearch, columnSearches, activeFilters, sortKey, sortOrder>>
viewState == <<totalCount, _currentViewData, _currentViewIndices, dom, buttons>>
flags == <<usePagination, enableSelection, enableGlobalSearchBar>>

Init ==
    /\ data = <<>>
    /\ totalCount = 0
    /\ usePagination = FALSE
    /\ index = 1
    /\ pageSize = DefaultPageSize
    /\ _currentViewData = <<>>
    /\ _currentViewIndices = <<>>
    /\ enableSelection = FALSE
    /\ selectedRows = {}
    /\ enableGlobalSearchBar = FALSE
    /\ globalSearch = <<>>
    /\ columnSettings = EmptyMap
    /\ sortKey = NoKey
    /\ sortOrder = "asc"
    /\ activeFilters = EmptyMap
    /\ columnSearches = EmptyMap
    /\ dom = NoDom
    /\ lastOp = "constructor"
    /\ steps = 0
    /\ engine \in Engines
    /\ pager = NoPager
    /\ actionColumns = <<>>
    /\ buttons = NoActionButtons
    /\ options = DefaultOptions
    /\ call = NoCall

(***************************************************************************)
(* The public methods.  None of them renders.                              *)
(***************************************************************************)
\* a faulty setData: the selection is dropped with the old data
setData_clearsSelection(d) ==
    /\ data' = d
    /\ totalCount' = Len(d)
    /\ selectedRows' = {}
    /\ Did("setData")
    /\ UNCHANGED <<index, pageSize, columnSettings, pipelineState, flags,
                   _currentViewData, _currentViewIndices, dom, buttons>>

setData(d) ==
    /\ data' = d
    /\ totalCount' = Len(d)
    /\ Did("setData")
    /\ UNCHANGED <<index, pageSize, selectedRows, columnSettings, pipelineState, flags,
                   _currentViewData, _currentViewIndices, dom, buttons>>

clearData ==
    /\ data' = <<>>
    /\ totalCount' = 0
    /\ Did("clearData")
    /\ UNCHANGED <<index, pageSize, selectedRows, columnSettings, pipelineState, flags,
                   _currentViewData, _currentViewIndices, dom, buttons>>

enablePagination(enabled) ==
    /\ usePagination' = enabled
    /\ Did("enablePagination")
    /\ UNCHANGED <<data, index, pageSize, selectedRows, columnSettings, pipelineState,
                   enableSelection, enableGlobalSearchBar, viewState>>

\* the arguments given to setPageSize
PageSizeInputs ==
    {Num(n) : n \in (0 - 1)..MaxPageSize}
        \cup {Str(Digits(MaxPageSize)), Str(<<>>), Str(<<"a", "b">>), Str(<<" ", "1", "p", "x">>),
              Str(<<"1", ".", "7">>), Str(<<"0", ".", "5">>), Null}

\* isNaN(num) || num <= 0, the condition under which setPageSize throws
setPageSizeThrows(size) == isNaN(parseInt(size)) \/ parseInt(size).n <= 0

\* faulty writes of setPageSize: the page index is kept
setPageSizeWrites_keepsIndex(size) ==
    IF setPageSizeThrows(size)
    THEN UNCHANGED <<pageSize, index>>
    ELSE pageSize' = parseInt(size).n /\ UNCHANGED index

\* what setPageSize(size) writes: a size that parses to no positive integer
\* makes it throw before it writes
setPageSizeWrites(size) ==
    IF setPageSizeThrows(size)
    THEN UNCHANGED <<pageSize, index>>
    ELSE pageSize' = parseInt(size).n /\ index' = 1

setPageSize(size) ==
    /\ setPageSizeWrites(size)
    /\ Did("setPageSize")
    /\ UNCHANGED <<data, selectedRows, columnSettings, pipelineState, flags, viewState>>

\* a faulty enableRowSelection: the selection survives disabling
enableRowSelection_keeps(enabled) ==
    /\ enableSelection' = enabled
    /\ Did("enableRowSelection")
    /\ UNCHANGED <<data, index, pageSize, selectedRows, columnSettings, pipelineState,
                   usePagination, enableGlobalSearchBar, viewState>>

enableRowSelection(enabled) ==
    /\ enableSelection' = enabled
    /\ selectedRows' = IF ~enabled THEN {} ELSE selectedRows
    /\ Did("enableRowSelection")
    /\ UNCHANGED <<data, index, pageSize, columnSettings, pipelineState, usePagination,
                   enableGlobalSearchBar, viewState>>

enableGlobalSearch(enabled) ==
    /\ enableGlobalSearchBar' = enabled
    /\ Did("enableGlobalSearch")
    /\ UNCHANGED <<data, index, pageSize, selectedRows, columnSettings, pipelineState,
                   usePagination, enableSelection, viewState>>

setColumn(key) ==
    /\ columnSettings' = Put(columnSettings, key, ColumnCatalog[key])
    /\ Did("setColumn")
    /\ UNCHANGED <<data, index, pageSize, selectedRows, pipelineState, flags, viewState>>

render ==
    /\ UNCHANGED <<data, index, pageSize, selectedRows, columnSettings, pipelineState, flags>>
    /\ Render
    /\ Did("render")

\* getSelectedRows(): the entry returned for each selected index (0 for undefined)
getSelectedRows ==
    [i \in selectedRows |-> IF i + 1 \in DOMAIN data THEN data[i + 1] ELSE 0]

(***************************************************************************)
(* The handlers of the rendered controls.  Each one ends by render().      *)
(***************************************************************************)
\* a faulty handler of the global search box: it keeps the page index
GlobalSearchEnter_keepsPage(text) ==
    /\ dom.rendered /\ dom.searchBar
    /\ globalSearch' = trim(text)
    /\ UNCHANGED <<data, index, pageSize, selectedRows, columnSettings, columnSearches,
                   activeFilters, sortKey, sortOrder, flags>>
    /\ Render
    /\ Did("globalSearch")

\* Enter in the global search box
GlobalSearchEnter(text) ==
    /\ dom.rendered /\ dom.searchBar
    /\ globalSearch' = trim(text)
    /\ index' = 1
    /\ UNCHANGED <<data, pageSize, selectedRows, columnSettings, columnSearches,
                   activeFilters, sortKey, sortOrder, flags>>
    /\ Render
    /\ Did("globalSearch")

HasIcon(key, flag) ==
    /\ dom.rendered
    /\ key \in DOMAIN dom.cols
    /\ dom.cols[key].visible
    /\ dom.cols[key][flag]

\* Enter in the search box of a column (#builSearchIcon)
ColumnSearchEnter(key, text) ==
    /\ HasIcon(key, "searchable")
    /\ LET val == trim(text)
       IN columnSearches' = IF val # <<>> THEN Put(columnSearches, key, val)
                            ELSE Delete(columnSearches, key)
    /\ index' = 1
    /\ UNCHANGED <<data, pageSize, selectedRows, columnSettings, globalSearch,
                   activeFilters, sortKey, sortOrder, flags>>
    /\ Render
    /\ Did("columnSearch")

\* s without the repetitions of a value (new Set(s), in insertion order)
RECURSIVE Distinct(_)
Distinct(s) ==
    IF s = <<>> THEN <<>>
    ELSE CHOOSE d \in {IF s[Len(s)] \in SeqRange(rest) THEN rest ELSE Append(rest, s[Len(s)]) :
                          rest \in {Distinct(SubSeq(s, 1, Len(s) - 1))}} : TRUE

\* allValues of #buildFilterDropdown: the options of the dropdown of a column
allValues(key, col) ==
    CHOOSE values \in {Distinct(truthy) :
                          truthy \in {SelectSeq([i \in DOMAIN data |-> FilterValue(col, data[i], key)],
                                                Truthy)}} : TRUE

\* the "select all" checkbox of a filter dropdown
FilterSelectAll(key, checked) ==
    /\ HasIcon(key, "filterable")
    /\ activeFilters' = Put(activeFilters, key,
                            IF checked THEN allValues(key, dom.cols[key]) ELSE <<>>)
    /\ index' = 1
    /\ UNCHANGED <<data, pageSize, selectedRows, columnSettings, globalSearch,
                   columnSearches, sortKey, sortOrder, flags>>
    /\ Render
    /\ Did("filterSelectAll")

\* the checkbox of one option of a filter dropdown; the value read back from
\* the checkbox is the text of its value attribute
FilterOptionChange(key, option, checked) ==
    /\ HasIcon(key, "filterable")
    /\ option \in SeqRange(allValues(key, dom.cols[key]))
    /\ LET val == Str(String(option))
           old == IF key \in DOMAIN activeFilters THEN activeFilters[key] ELSE <<>>
           Other(v) == v # val
       IN activeFilters' = Put(activeFilters, key,
                               IF checked
                               THEN (IF val \in SeqRange(old) THEN old ELSE Append(old, val))
                               ELSE SelectSeq(old, Other))
    /\ index' = 1
    /\ UNCHANGED <<data, pageSize, selectedRows, columnSettings, globalSearch,
                   columnSearches, sortKey, sortOrder, flags>>
    /\ Render
    /\ Did("filterOption")

\* a faulty sort icon: a click on a descending column makes it ascending again
SortClick_twoStates(key) ==
    /\ HasIcon(key, "sortable")
    /\ sortKey' = key
    /\ sortOrder' = IF sortKey = key /\ sortOrder = "asc" THEN "desc" ELSE "asc"
    /\ UNCHANGED <<data, index, pageSize, selectedRows, columnSettings, globalSearch,
                   columnSearches, activeFilters, flags>>
    /\ Render
    /\ Did("sort")

\* click on the sort icon of a column (#buildSortIcon)
SortClick(key) ==
    /\ HasIcon(key, "sortable")
    /\ IF sortKey = key
       THEN IF sortOrder = "asc" THEN sortOrder' = "desc" /\ sortKey' = sortKey
            ELSE IF sortOrder = "desc" THEN sortKey' = NoKey /\ sortOrder' = "asc"
            ELSE UNCHANGED <<sortKey, sortOrder>>
       ELSE sortKey' = key /\ sortOrder' = "asc"
    /\ UNCHANGED <<data, index, pageSize, selectedRows, columnSettings, globalSearch,
                   columnSearches, activeFilters, flags>>
    /\ Render
    /\ Did("sort")

\* the pagination buttons that have a handler (#buildPagination): a disabled
\* button has none
PageButtons ==
    (IF dom.current = 1 THEN {} ELSE {"first", "prev"})
        \cup (IF dom.current = dom.totalPages THEN {} ELSE {"next", "last"})

PageNumbers ==
    LET start == IF dom.current - 1 > 1 THEN dom.current - 1 ELSE 1
        end == IF start + 2 < dom.totalPages THEN start + 2 ELSE dom.totalPages
    IN start..end

\* the page a named button moves to
PageTarget(button) ==
    CASE button = "first" -> 1
      [] button = "prev" -> index - 1
      [] button = "next" -> index + 1
      [] OTHER -> dom.totalPages

PageClick(button) ==
    /\ dom.rendered /\ dom.footer
    /\ button \in PageButtons
    /\ PageTarget(button) \in (1 - IndexSlack)..MaxIndex
    /\ index' = PageTarget(button)
    /\ UNCHANGED <<data, pageSize, selectedRows, columnSettings, pipelineState, flags>>
    /\ Render
    /\ Did("page")

PageNumberClick(i) ==
    /\ dom.rendered /\ dom.footer
    /\ i \in PageNumbers
    /\ index' = i
    /\ UNCHANGED <<data, pageSize, selectedRows, columnSettings, pipelineState, flags>>
    /\ Render
    /\ Did("pageNumber")

\* a faulty reset button: it clears the selection too
ResetClick_clearsSelection ==
    /\ dom.rendered /\ ~dom.resetDisabled
    /\ globalSearch' = <<>>
    /\ columnSearches' = EmptyMap
    /\ activeFilters' = EmptyMap
    /\ sortKey' = NoKey
    /\ sortOrder' = "asc"
    /\ index' = 1
    /\ selectedRows' = {}
    /\ UNCHANGED <<data, pageSize, columnSettings, flags>>
    /\ Render
    /\ Did("reset")

\* a faulty reset button: the page index is kept
ResetClick_keepsPage ==
    /\ dom.rendered /\ ~dom.resetDisabled
    /\ globalSearch' = <<>>
    /\ columnSearches' = EmptyMap
    /\ activeFilters' = EmptyMap
    /\ sortKey' = NoKey
    /\ sortOrder' = "asc"
    /\ UNCHANGED <<data, index, pageSize, selectedRows, columnSettings, flags>>
    /\ Render
    /\ Did("reset")

\* the reset button of render
ResetClick ==
    /\ dom.rendered /\ ~dom.resetDisabled
    /\ globalSearch' = <<>>
    /\ columnSearches' = EmptyMap
    /\ activeFilters' = EmptyMap
    /\ sortKey' = NoKey
    /\ sortOrder' = "asc"
    /\ index' = 1
    /\ UNCHANGED <<data, pageSize, selectedRows, columnSettings, flags>>
    /\ Render
    /\ Did("reset")

\* the checkbox of a row (#buildBodySelection); globalIndex is the raw index
\* found when the row was rendered
RowToggle(globalIndex) ==
    /\ dom.rendered /\ dom.selection
    /\ globalIndex \in SeqRange(_currentViewIndices)
    /\ LET checked == globalIndex \notin dom.rowChecked
           selected == IF checked THEN selectedRows \cup {globalIndex}
                       ELSE selectedRows \ {globalIndex}
           rows == IF checked THEN dom.rowChecked \cup {globalIndex}
                   ELSE dom.rowChecked \ {globalIndex}
       IN /\ selectedRows' = selected
          /\ dom' = updateSelectAllState([dom EXCEPT !.rowChecked = rows], selected)
          /\ Did("rowToggle")
    /\ UNCHANGED <<data, totalCount, index, pageSize, _currentViewData, _currentViewIndices,
                   columnSettings, pipelineState, flags, buttons>>

\* a faulty select-all handler: it works on every index of the data
selectAllChange_wholeData(checked, visibleIndices) ==
    IF checked THEN selectedRows \cup {i - 1 : i \in DOMAIN data} ELSE {}

\* the select-all checkbox of the header (#buildHeaderSelection)
selectAllChange(checked, visibleIndices) ==
    IF checked THEN selectedRows \cup SeqRange(visibleIndices)
    ELSE selectedRows \ SeqRange(visibleIndices)

SelectAllClick ==
    /\ dom.rendered /\ dom.selection /\ ~dom.selAllDisabled
    /\ selectedRows' = selectAllChange(~dom.selAllChecked, _currentViewIndices)
    /\ UNCHANGED <<data, index, pageSize, columnSettings, pipelineState, flags>>
    /\ Render
    /\ Did("selectAll")

\* a session of at most MaxSteps operations
Session == steps < MaxSteps

Next ==
    \/ Session /\ \E d \in DataArrays : setData(d)
    \/ Session /\ clearData
    \/ Session /\ \E enabled \in BOOLEAN : enablePagination(enabled)
    \/ Session /\ \E size \in PageSizeInputs : setPageSize(size)
    \/ Session /\ \E enabled \in BOOLEAN : enableRowSelection(enabled)
    \/ Session /\ \E enabled \in BOOLEAN : enableGlobalSearch(enabled)
    \/ Session /\ \E key \in DOMAIN ColumnCatalog : setColumn(key)
    \/ Session /\ render
    \/ Session /\ \E text \in GlobalTerms : GlobalSearchEnter(text)
    \/ Session /\ \E key \in DOMAIN ColumnCatalog, text \in ColumnTerms :
                      ColumnSearchEnter(key, text)
    \/ Session /\ \E key \in DOMAIN ColumnCatalog, checked \in BOOLEAN :
                      FilterSelectAll(key, checked)
    \/ Session /\ \E key \in DOMAIN ColumnCatalog, row \in RowIds, checked \in BOOLEAN :
                      FilterOptionChange(key, FilterValue(ColumnCatalog[key], row, key), checked)
    \/ Session /\ \E key \in DOMAIN ColumnCatalog : SortClick(key)
    \/ Session /\ \E button \in {"first", "prev", "next", "last"} : PageClick(button)
    \/ Session /\ \E i \in 1..MaxIndex : PageNumberClick(i)
    \/ Session /\ ResetClick
    \/ Session /\ \E globalIndex \in 0..(Len(RowTable) - 1) : RowToggle(globalIndex)
    \/ Session /\ SelectAllClick

Spec == Init /\ [][Next]_vars

(***************************************************************************)
(* Properties of the selection and of the data setters, under Spec.        *)
(***************************************************************************)
\* the operations that end by render()
RenderOps ==
    {"render", "globalSearch", "columnSearch", "filterSelectAll", "filterOption", "sort",
     "page", "pageNumber", "reset", "selectAll"}

\* the raw indices a data array of the model can have
RawIndices == 0..(Len(RowTable) - 1)

\* the raw indices of the rows shown by the last render
RenderedIndices ==
    {i \in RawIndices : i + 1 \in DOMAIN data /\ data[i + 1] \in SeqRange(_currentViewData)}

\* C1: checking the header select-all checkbox adds to the selection exactly the
\* raw indices of the rows of the rendered view, unchecking it removes exactly
\* those, and every other raw index keeps its membership; a selection made
\* under a filter is therefore still that subset once the filter is cleared
C1_SelectAllActsOnView ==
    [][/\ lastOp' \in RenderOps => SeqRange(_currentViewIndices') = RenderedIndices'
       /\ lastOp' = "selectAll" =>
              \A i \in RawIndices :
                  IF i \in SeqRange(_currentViewIndices)
                  THEN (i \in selectedRows') <=> ~dom.selAllChecked
                  ELSE (i \in selectedRows') <=> (i \in selectedRows)
       /\ (lastOp = "selectAll" /\ lastOp' \in {"reset", "filterOption", "filterSelectAll"})
              => selectedRows' = selectedRows]_vars

\* select-all has been checked while a filter shows a strict subset of the data
C1_Witness ==
    /\ lastOp = "selectAll"
    /\ DOMAIN activeFilters # {}
    /\ Len(_currentViewIndices) < Len(data)
    /\ selectedRows # {}
    /\ selectedRows = SeqRange(_currentViewIndices)

\* C2: after every render and every row-checkbox toggle the select-all checkbox
\* is checked iff the view is non-empty and all its indices are selected,
\* indeterminate iff some but not all are selected, and neither iff none is
\* selected or the view is empty
C2_SelectAllTriState ==
    (lastOp \in RenderOps \cup {"rowToggle"} /\ dom.selection) =>
        LET view == SeqRange(_currentViewIndices)
            chosen == view \cap selectedRows
        IN /\ dom.selAllChecked <=> (view # {} /\ chosen = view)
           /\ dom.selAllIndeterminate <=> (chosen # {} /\ chosen # view)
           /\ (~dom.selAllChecked /\ ~dom.selAllIndeterminate) <=> (chosen = {} \/ view = {})

\* a row toggle has left some but not all rows of the view selected
C2_Witness ==
    /\ lastOp = "rowToggle"
    /\ dom.selAllIndeterminate
    /\ Len(_currentViewIndices) > 1

\* C3: the selection changes only through a row-checkbox toggle, the select-all
\* checkbox or enableRowSelection(false); searches, filter changes, sort
\* clicks, page navigation, reset, setPageSize, enablePagination and render
\* leave it unchanged
C3_SelectionFrame ==
    [][/\ selectedRows' # selectedRows =>
              \/ lastOp' \in {"rowToggle", "selectAll"}
              \/ lastOp' = "enableRowSelection" /\ ~enableSelection'
       /\ lastOp' \in {"globalSearch", "columnSearch", "filterSelectAll", "filterOption",
                        "sort", "page", "pageNumber", "reset", "setPageSize",
                        "enablePagination", "render"}
              => selectedRows' = selectedRows]_vars

\* the reset button has been clicked while rows are selected
C3_Witness ==
    /\ lastOp = "reset"
    /\ selectedRows # {}

\* C4: setData replaces the data and sets totalCount to the length of the new
\* array; the search terms, the filters, the sort state, the page index, the
\* page size and the selection stay as they were
C4_SetDataFrame ==
    [][lastOp' = "setData" =>
           /\ data' \in DataArrays
           /\ totalCount' = Len(data')
           /\ UNCHANGED <<globalSearch, columnSearches, activeFilters, sortKey, sortOrder,
                          index, pageSize, selectedRows>>]_vars

\* setData has run on a grid with a sort and a selection
C4_Witness ==
    /\ lastOp = "setData"
    /\ sortKey # NoKey
    /\ selectedRows # {}

\* C5: enableRowSelection(false) leaves the selection empty whatever it held,
\* and enableRowSelection(true) leaves it unchanged
C5_EnableRowSelection ==
    [][lastOp' = "enableRowSelection" =>
           IF enableSelection' THEN selectedRows' = selectedRows ELSE selectedRows' = {}]_vars

\* selection has been disabled while the rendered rows still show checked boxes
C5_Witness ==
    /\ lastOp = "enableRowSelection"
    /\ ~enableSelection
    /\ dom.rowChecked # {}
    /\ selectedRows = {}

\* C6: getSelectedRows() has one entry per selected index and every entry is a
\* row of the current data, never undefined
C6_SelectedRowsAreRows ==
    /\ DOMAIN getSelectedRows = selectedRows
    /\ \A i \in selectedRows : getSelectedRows[i] \in SeqRange(data)

\* C7: computing the view with #getPagedData changes neither the data, nor
\* totalCount, nor the search terms, the filters, the sort state, the page
\* index, the page size or the selection
C7_PipelineLeavesState ==
    [][lastOp' = "render" =>
           UNCHANGED <<data, totalCount, globalSearch, columnSearches, activeFilters,
                       sortKey, sortOrder, index, pageSize, selectedRows>>]_vars

\* the rows of data that pass the global search, the column searches and the
\* active filters
PassingRows == applyActiveFilters(applyColumnSearches(applyGlobalSearch(data)))

C16_TotalCountIsDataLength == getTotalCount = Len(data)

\* C17: in every reachable state #getTotalPages, the ceiling of
\* totalCount / pageSize, is at least 1, also when totalCount is 0
C17_TotalPagesAtLeastOne ==
    /\ getTotalPages >= 1
    /\ getTotalPages * pageSize >= totalCount
    /\ totalCount > 0 => (getTotalPages - 1) * pageSize < totalCount

\* a render of a grid none of whose rows passes the search
C17_Witness ==
    /\ lastOp \in RenderOps
    /\ data # <<>>
    /\ totalCount = 0
    /\ getTotalPages = 1

\* what each argument of the model parses to
PageSizeParses == [size \in PageSizeInputs |-> parseInt(size)]

\* the sizes that parse to an integer greater than 0
PositiveSize(size) == ~PageSizeParses[size].nan /\ PageSizeParses[size].n > 0

C19_IndexInRange ==
    lastOp \in RenderOps => (1 <= index /\ index <= getTotalPages)

(***************************************************************************)
(* The stages of the view pipeline as functions of the widget state: the   *)
(* state is drawn from the sets below and the stages are run on it.        *)
(***************************************************************************)
PipePageSize == 2

PipeData == {<<1, 2, 3>>, <<3, 1>>, <<2, 4, 1>>}

\* settings of the column "name": shown through a formatter but not
\* searchable, or hidden and searchable
NameOptions ==
    {ColSettings(TRUE, FALSE, FALSE, FALSE, "none", "boldName", "none", "none"),
     ColSettings(FALSE, FALSE, FALSE, TRUE, "none", "none", "none", "none")}

\* settings of the column "gender": shown and not searchable, hidden and
\* searchable, or shown with searchSource and filterSource functions
GenderOptions ==
    {ColSettings(TRUE, TRUE, TRUE, FALSE, "none", "none", "none", "none"),
     ColSettings(FALSE, TRUE, TRUE, TRUE, "none", "none", "none", "none"),
     ColSettings(TRUE, TRUE, TRUE, TRUE, "nameGender", "none", "ageOf", "none")}

PipeSettings ==
    {[gender |-> g] : g \in GenderOptions}
        \cup {[name |-> n, gender |-> g] : n \in NameOptions, g \in GenderOptions}

\* this.globalSearch: empty, blank, or a term
PipeGlobalTerms == {<<>>, <<" ">>, <<"E">>, <<"a">>, <<"k">>}

PipeColumnSearches(settings) ==
    {EmptyMap}
        \cup {[k \in {key} |-> term] : key \in DOMAIN settings, term \in {<<"k">>, <<"A">>}}
        \cup {[k \in {"name", "gender"} |-> IF k = "name" THEN first ELSE term] :
                  first \in {f \in {<<"k">>} : "name" \in DOMAIN settings},
                  term \in {<<"E">>, <<"A">>}}

PipeLists == {<<>>, <<Str(<<"E">>)>>, <<Num(7), Null>>}

PipeFilters(settings) ==
    {EmptyMap}
        \cup {[k \in {"gender"} |-> list] : list \in PipeLists}
        \cup {[k \in {"name", "gender"} |-> IF k = "name" THEN first ELSE list] :
                  first \in {f \in {<<>>, <<Str(<<"B", "k">>), Str(<<"A", "l">>)>>} :
                                 "name" \in DOMAIN settings},
                  list \in PipeLists}

InitPipeline ==
    /\ data \in PipeData
    /\ totalCount = Len(data)
    /\ usePagination \in BOOLEAN
    /\ index = 1
    /\ pageSize = IF usePagination THEN PipePageSize ELSE DefaultPageSize
    /\ _currentViewData = <<>>
    /\ _currentViewIndices = <<>>
    /\ enableSelection = FALSE
    /\ selectedRows = {}
    /\ enableGlobalSearchBar = TRUE
    /\ globalSearch \in PipeGlobalTerms
    /\ columnSettings \in PipeSettings
    /\ sortKey \in {NoKey, "gender"}
    /\ sortOrder = "asc"
    /\ activeFilters \in PipeFilters(columnSettings)
    /\ columnSearches \in PipeColumnSearches(columnSettings)
    /\ dom = NoDom
    /\ lastOp = "constructor"
    /\ steps = 0
    /\ engine \in Engines
    /\ pager = NoPager
    /\ actionColumns = <<>>
    /\ buttons = NoActionButtons
    /\ options = DefaultOptions
    /\ call = NoCall

\* one of the three filtering stages
ApplyStage(stage, rows) ==
    CASE stage = "global" -> applyGlobalSearch(rows)
      [] stage = "column" -> applyColumnSearches(rows)
      [] OTHER -> applyActiveFilters(rows)

\* the three filtering stages in the order given
ApplyStages(order, rows) ==
    ApplyStage(order[3], ApplyStage(order[2], ApplyStage(order[1], rows)))

\* the order of #getPagedData
CodeOrder == <<"global", "column", "filter">>

StageOrders ==
    {o \in [1..3 -> {"global", "column", "filter"}] : {o[1], o[2], o[3]} = SeqRange(CodeOrder)}

stageFrame ==
    <<data, totalCount, usePagination, index, pageSize, _currentViewIndices, enableSelection,
      selectedRows, enableGlobalSearchBar, globalSearch, columnSettings, sortKey, sortOrder,
      activeFilters, columnSearches, dom, steps, engine, pager, actionColumns, buttons,
      options, call>>

\* the filtering stages run in some order, then sorting and pagination
RunStages(order) ==
    /\ _currentViewData' = applyPagination(applySorting(ApplyStages(order, data)))
    /\ lastOp' = "stages"
    /\ UNCHANGED stageFrame

RunGlobalSearch ==
    /\ _currentViewData' = applyGlobalSearch(data)
    /\ lastOp' = "applyGlobalSearch"
    /\ UNCHANGED stageFrame

RunColumnSearches ==
    /\ _currentViewData' = applyColumnSearches(data)
    /\ lastOp' = "applyColumnSearches"
    /\ UNCHANGED stageFrame

RunActiveFilters ==
    /\ _currentViewData' = applyActiveFilters(data)
    /\ lastOp' = "applyActiveFilters"
    /\ UNCHANGED stageFrame

NextPipeline ==
    \/ \E order \in StageOrders : RunStages(order)
    \/ RunGlobalSearch
    \/ RunColumnSearches
    \/ RunActiveFilters

SpecPipeline == InitPipeline /\ [][NextPipeline]_vars

\* C8: the global-search, column-search and active-filter stages give the same
\* rows in the same order in each of their six orders, sorting and pagination
\* kept last
C8_StageOrderIrrelevant ==
    /\ \A order \in StageOrders : ApplyStages(order, data) = ApplyStages(CodeOrder, data)
    /\ lastOp = "stages" => _currentViewData = getPagedData.rows

\* the stages have run on a state where each of them alone removes rows, and
\* not the same ones
C8_Witness ==
    /\ lastOp = "stages"
    /\ applyGlobalSearch(data) # data
    /\ applyColumnSearches(data) # data
    /\ applyActiveFilters(data) # data
    /\ applyGlobalSearch(data) # applyColumnSearches(data)
    /\ applyColumnSearches(data) # applyActiveFilters(data)
    /\ applyGlobalSearch(data) # applyActiveFilters(data)
    /\ _currentViewData # <<>>

\* the term of the global search matches the searchable text of column key
CellMatches(row, key) ==
    includes(toLowerCase(getCellSearchableText(row, key)), toLowerCase(globalSearch))

VisibleKeys == {key \in DOMAIN columnSettings : columnSettings[key].visible}

\* C9: with a non-blank term the global search keeps a row iff a column with
\* visible = true has searchable text containing the term without regard to
\* case, whatever the searchable flags say; with an empty or blank term it
\* keeps every row
C9_GlobalSearchGate ==
    lastOp = "applyGlobalSearch" =>
        IF trim(globalSearch) = <<>> THEN _currentViewData = data
        ELSE LET Kept(row) == \E key \in VisibleKeys : CellMatches(row, key)
             IN _currentViewData = SelectSeq(data, Kept)

\* a non-blank term is found only in a hidden searchable column of one row and
\* in a visible column that is not searchable of another
C9_Witness ==
    /\ lastOp = "applyGlobalSearch"
    /\ trim(globalSearch) # <<>>
    /\ \E row \in SeqRange(data) :
           /\ row \notin SeqRange(_currentViewData)
           /\ \E key \in DOMAIN columnSettings :
                  /\ ~columnSettings[key].visible
                  /\ columnSettings[key].searchable
                  /\ CellMatches(row, key)
    /\ \E row \in SeqRange(_currentViewData) :
           \A key \in VisibleKeys : CellMatches(row, key) => ~columnSettings[key].searchable

\* the keys of the filters that have a non-empty list
RestrictingKeys == {key \in DOMAIN activeFilters : activeFilters[key] # <<>>}

\* the filters without the keys that have an empty list
WithoutEmptyLists == [key \in RestrictingKeys |-> activeFilters[key]]

\* C10: the active-filter stage keeps a row iff, for every key with a non-empty
\* list, the filter value of the row (filterSource(row) when it is a function,
\* else row[key]) is in the list; a key with an empty list restricts nothing,
\* as if it were absent
C10_ActiveFilters ==
    lastOp = "applyActiveFilters" =>
        LET Value(row, key) ==
                IF columnSettings[key].filterSource \in FnNames
                THEN ApplyFn(columnSettings[key].filterSource, row)
                ELSE RowField(row, key)
            Kept(row) ==
                \A key \in RestrictingKeys :
                    \E i \in DOMAIN activeFilters[key] : activeFilters[key][i] = Value(row, key)
        IN /\ _currentViewData = SelectSeq(data, Kept)
           /\ _currentViewData = filterRows(WithoutEmptyLists, data)

\* the stage has run with an empty list for one key and a list for another
\* that keeps some rows and removes others, and with a filterSource function
C10_Witness ==
    /\ lastOp = "applyActiveFilters"
    /\ DOMAIN activeFilters # RestrictingKeys
    /\ RestrictingKeys # {}
    /\ _currentViewData # <<>>
    /\ _currentViewData # data
    /\ \E key \in RestrictingKeys : columnSettings[key].filterSource \in FnNames

\* the searchable text of a cell: searchSource, else the plain text of the
\* formatter, else the raw value
SearchableText(row, key) ==
    IF columnSettings[key].searchSource \in FnNames
    THEN TextOf(ApplyFn(columnSettings[key].searchSource, row))
    ELSE IF columnSettings[key].formatter \in FnNames
    THEN StripTags(TextOf(ApplyFn(columnSettings[key].formatter, row)), FALSE)
    ELSE TextOf(RowField(row, key))

\* C11: the column-search stage keeps a row iff, for every key with a
\* non-empty term, the searchable text of the row for that column contains the
\* term without regard to case; all terms hold at once
C11_ColumnSearches ==
    lastOp = "applyColumnSearches" =>
        LET Kept(row) ==
                \A key \in DOMAIN columnSearches :
                    columnSearches[key] # <<>> =>
                        includes(toLowerCase(SearchableText(row, key)),
                                 toLowerCase(columnSearches[key]))
        IN _currentViewData = SelectSeq(data, Kept)

\* two terms are set, an upper-case one among them, on a formatter column and
\* on a searchSource column; each term alone keeps more rows than both do
C11_Witness ==
    /\ lastOp = "applyColumnSearches"
    /\ DOMAIN columnSearches = {"name", "gender"}
    /\ columnSearches["gender"] = <<"E">>
    /\ columnSettings["name"].formatter \in FnNames
    /\ columnSettings["gender"].searchSource \in FnNames
    /\ _currentViewData # <<>>
    /\ \E row \in SeqRange(data) \ SeqRange(_currentViewData) :
           \E key \in DOMAIN columnSearches :
               includes(toLowerCase(SearchableText(row, key)), toLowerCase(columnSearches[key]))

(***************************************************************************)
(* Sorting and pagination as functions of the widget state.                *)
(***************************************************************************)
MaxRows == 4
SortPageSize == 2

\* data arrays of at most MaxRows distinct row objects
SortData ==
    {arr \in UNION {[1..n -> RowIds] : n \in 0..MaxRows} :
        \A i, j \in DOMAIN arr : i # j => arr[i] # arr[j]}

\* no column registered, a plain column, a column sorted by a sortSource
\* function, a column sorted by the text of its formatter
SortSettings ==
    {EmptyMap,
     [age |-> ColSettings(TRUE, TRUE, FALSE, FALSE, "none", "none", "none", "none")],
     [gender |-> ColSettings(TRUE, TRUE, FALSE, FALSE, "none", "none", "none", "ageOf")],
     [name |-> ColSettings(TRUE, TRUE, FALSE, FALSE, "none", "boldName", "none", "none")]}

InitSort ==
    /\ data \in SortData
    /\ totalCount = Len(data)
    /\ usePagination \in BOOLEAN
    /\ index \in IF usePagination THEN 1..MaxIndex ELSE {1}
    /\ pageSize \in IF usePagination THEN 1..SortPageSize ELSE {DefaultPageSize}
    /\ _currentViewData = <<>>
    /\ _currentViewIndices = <<>>
    /\ enableSelection = FALSE
    /\ selectedRows = {}
    /\ enableGlobalSearchBar = FALSE
    /\ globalSearch = <<>>
    /\ columnSettings \in SortSettings
    /\ sortKey \in {"age", "gender", "name"}
    /\ sortOrder \in {"asc", "desc"}
    /\ activeFilters \in {EmptyMap}
           \cup {[k \in {"gender"} |-> <<Str(<<"E">>)>>] : g \in {"gender"} \cap DOMAIN columnSettings}
    /\ columnSearches = EmptyMap
    /\ dom = NoDom
    /\ lastOp = "constructor"
    /\ steps = 0
    /\ engine \in Engines
    /\ pager = NoPager
    /\ actionColumns = <<>>
    /\ buttons = NoActionButtons
    /\ options = DefaultOptions
    /\ call = NoCall

RunSorting ==
    /\ _currentViewData' = applySorting(data)
    /\ lastOp' = "applySorting"
    /\ UNCHANGED stageFrame

\* #getPagedData on the drawn state
RunPagedData ==
    /\ \E paged \in {getPagedData} :
           /\ totalCount' = paged.totalCount
           /\ _currentViewData' = paged.rows
    /\ lastOp' = "getPagedData"
    /\ UNCHANGED <<data, usePagination, index, pageSize, _currentViewIndices, enableSelection,
                   selectedRows, enableGlobalSearchBar, globalSearch, columnSettings, sortKey,
                   sortOrder, activeFilters, columnSearches, dom, steps, engine, pager,
                   actionColumns, buttons, options, call>>

NextSort ==
    \/ RunSorting
    \/ RunPagedData

SpecSort == InitSort /\ [][NextSort]_vars

\* the place of a row in an array of distinct rows
PlaceOf(arr, row) == CHOOSE i \in DOMAIN arr : arr[i] = row

\* the sortable values of two rows are equal, or both null or undefined
SameSortValue(a, b) ==
    \/ getCellSortableValue(a, sortKey) = getCellSortableValue(b, sortKey)
    \/ IsNullish(getCellSortableValue(a, sortKey)) /\ IsNullish(getCellSortableValue(b, sortKey))

\* C12: sorting is stable: two rows with equal sortable values, or with values
\* that are both null or undefined, keep their relative order, for "asc" and
\* for "desc"
C12_SortStable ==
    lastOp = "applySorting" =>
        /\ SeqRange(_currentViewData) = SeqRange(data)
        /\ \A i, j \in DOMAIN data :
               (i < j /\ SameSortValue(data[i], data[j])) =>
                   PlaceOf(_currentViewData, data[i]) < PlaceOf(_currentViewData, data[j])

\* C13: with a sort key set, every row with a null or undefined sortable value
\* comes after every row with a non-null one, for "asc" and for "desc"
C13_NullsLast ==
    lastOp = "applySorting" =>
        \A i, j \in DOMAIN _currentViewData :
            (/\ IsNullish(getCellSortableValue(_currentViewData[i], sortKey))
             /\ ~IsNullish(getCellSortableValue(_currentViewData[j], sortKey))) => j < i

\* a descending sort has moved rows, with two null or undefined values and two
\* other values in the data, a null one first
C13_Witness ==
    /\ lastOp = "applySorting"
    /\ sortOrder = "desc"
    /\ _currentViewData # data
    /\ Len(data) = 4
    /\ IsNullish(getCellSortableValue(data[1], sortKey))
    /\ Cardinality({i \in DOMAIN data : IsNullish(getCellSortableValue(data[i], sortKey))}) = 2
    /\ getCellSortableValue(data[2], sortKey) # getCellSortableValue(data[4], sortKey)

\* the page and the place in it of the k-th filtered and sorted row
PageOfRow(k) == ((k - 1) \div pageSize) + 1
PlaceInPage(k) == ((k - 1) % pageSize) + 1

\* C14: with pagination enabled the view of page index i is the slice
\* [(i-1)*pageSize, i*pageSize) of the filtered and sorted rows: it has at most
\* pageSize rows, and the pages 1..totalPages hold every row once, in order;
\* with pagination disabled the view is the whole list
C14_PageSlices ==
    lastOp = "getPagedData" =>
        IF ~usePagination THEN _currentViewData = FilteredSorted
        ELSE /\ Len(_currentViewData) <= pageSize
             /\ Len(_currentViewData)
                    = Cardinality({k \in DOMAIN FilteredSorted : PageOfRow(k) = index})
             /\ \A k \in DOMAIN FilteredSorted :
                    /\ PageOfRow(k) \in 1..getTotalPages
                    /\ PageOfRow(k) = index =>
                           /\ PlaceInPage(k) \in DOMAIN _currentViewData
                           /\ _currentViewData[PlaceInPage(k)] = FilteredSorted[k]

\* the second page of four rows sorted by age, descending, two rows a page
C14_Witness ==
    /\ lastOp = "getPagedData"
    /\ usePagination
    /\ index = 2
    /\ pageSize = 2
    /\ sortKey = "age"
    /\ sortOrder = "desc"
    /\ Len(FilteredSorted) = 4
    /\ FilteredSorted # data
    /\ _currentViewData = SubSeq(FilteredSorted, 3, 4)

(***************************************************************************)
(* PaginationModule (src/js/paginationModule.js).  Its state is the record *)
(* pager; the grid is left as its constructor made it.                     *)
(***************************************************************************)
\* largest totalCount given to the module
MaxCount == 3
\* the page sizes given to the module are the non-zero integers of
\* -MaxPagerSize..MaxPagerSize (a size of 0 makes the page count Infinity)
MaxPagerSize == 2

\* options.visibleRange ?? 3
DefaultVisibleRange == 3

PagerSizes == ((0 - MaxPagerSize)..MaxPagerSize) \ {0}
PagerCounts == 0..MaxCount
\* options.index is stored as given
PagerIndices == (0 - 1)..(MaxCount + 1)

\* Math.ceil(a / b) for b # 0
Ceil(a, b) ==
    IF b > 0 THEN 0 - ((0 - a) \div b) ELSE 0 - (a \div (0 - b))

\* getTotalPages(): Math.ceil(totalCount / pageSize) || 1
PaginationModule_getTotalPages(state) ==
    IF Ceil(state.totalCount, state.pageSize) = 0 THEN 1
    ELSE Ceil(state.totalCount, state.pageSize)

Max(a, b) == IF a >= b THEN a ELSE b

\* the first and the last page number of buildPagination
NumbersEnd(state) ==
    IF Max(1, state.index - (DefaultVisibleRange \div 2)) + DefaultVisibleRange - 1
           > PaginationModule_getTotalPages(state)
    THEN PaginationModule_getTotalPages(state)
    ELSE Max(1, state.index - (DefaultVisibleRange \div 2)) + DefaultVisibleRange - 1

NumbersStart(state) ==
    IF Max(1, state.index - (DefaultVisibleRange \div 2)) + DefaultVisibleRange - 1
           > PaginationModule_getTotalPages(state)
    THEN Max(1, PaginationModule_getTotalPages(state) - DefaultVisibleRange + 1)
    ELSE Max(1, state.index - (DefaultVisibleRange \div 2))

\* buildPagination(): the buttons that get a click handler; nothing is
\* rebuilt when the module is not enabled
buildPagination(state, mobile) ==
    IF ~state.enabled THEN state.buttons
    ELSE [first |-> state.index # 1,
          prev |-> state.index # 1,
          numbers |-> IF mobile THEN {} ELSE NumbersStart(state)..NumbersEnd(state),
          next |-> state.index # PaginationModule_getTotalPages(state),
          last |-> state.index # PaginationModule_getTotalPages(state)]

NoButtons == [first |-> FALSE, prev |-> FALSE, numbers |-> {}, next |-> FALSE, last |-> FALSE]

\* render(): buildPagination at the present window width
PaginationModule_render(state, mobile) ==
    [state EXCEPT !.buttons = buildPagination(state, mobile), !.mobile = mobile]

\* the page #goTo lands on
Clamp(pageNumber, total) ==
    IF (IF pageNumber < 1 THEN 1 ELSE pageNumber) > total THEN total
    ELSE IF pageNumber < 1 THEN 1 ELSE pageNumber

\* #goTo(pageNumber): logs the request, clamps it, stores it and calls
\* onPageChange(index, pageSize)
goTo(state, pageNumber) ==
    [state EXCEPT !.logged = <<pageNumber>>,
                  !.index = Clamp(pageNumber, PaginationModule_getTotalPages(state)),
                  !.onPageChange = <<Clamp(pageNumber, PaginationModule_getTotalPages(state)),
                                     state.pageSize>>]

\* new PaginationModule(options): the state, then render()
InitPager ==
    /\ data = <<>>
    /\ totalCount = 0
    /\ usePagination = FALSE
    /\ index = 1
    /\ pageSize = DefaultPageSize
    /\ _currentViewData = <<>>
    /\ _currentViewIndices = <<>>
    /\ enableSelection = FALSE
    /\ selectedRows = {}
    /\ enableGlobalSearchBar = FALSE
    /\ globalSearch = <<>>
    /\ columnSettings = EmptyMap
    /\ sortKey = NoKey
    /\ sortOrder = "asc"
    /\ activeFilters = EmptyMap
    /\ columnSearches = EmptyMap
    /\ dom = NoDom
    /\ lastOp = "constructor"
    /\ steps = 0
    /\ engine \in {"runs"}
    /\ actionColumns = <<>>
    /\ buttons = NoActionButtons
    /\ options = DefaultOptions
    /\ call = NoCall
    /\ \E enabled, mobile \in BOOLEAN, size \in PagerSizes, i \in PagerIndices,
          count \in PagerCounts :
           pager = PaginationModule_render(
                       [enabled |-> enabled, pageSize |-> size, index |-> i,
                        totalCount |-> count, buttons |-> NoButtons, mobile |-> mobile,
                        logged |-> <<>>, onPageChange |-> <<>>], mobile)

pagerFrame ==
    <<data, totalCount, usePagination, index, pageSize, _currentViewData, _currentViewIndices,
      enableSelection, selectedRows, enableGlobalSearchBar, globalSearch, columnSettings,
      sortKey, sortOrder, activeFilters, columnSearches, dom, steps, engine, actionColumns,
      buttons, options, call>>

PagerDid(op) == lastOp' = op /\ UNCHANGED pagerFrame

PaginationModule_setTotalCount(count) ==
    /\ pager' = [pager EXCEPT !.totalCount = count, !.index = 1]
    /\ PagerDid("setTotalCount")

PaginationModule_setPageSize(size) ==
    /\ pager' = [pager EXCEPT !.pageSize = size, !.index = 1]
    /\ PagerDid("setPageSize")

next == pager' = goTo(pager, pager.index + 1) /\ PagerDid("next")
prev == pager' = goTo(pager, pager.index - 1) /\ PagerDid("prev")
first == pager' = goTo(pager, 1) /\ PagerDid("first")
last == pager' = goTo(pager, PaginationModule_getTotalPages(pager)) /\ PagerDid("last")

\* render(), also run by the resize handler of the window
PagerRender(mobile) ==
    /\ pager' = PaginationModule_render(pager, mobile)
    /\ PagerDid("render")

\* the click handlers of the buttons built by the last render
FirstButton ==
    /\ pager.buttons.first
    /\ pager' = PaginationModule_render(goTo(pager, 1), pager.mobile)
    /\ PagerDid("firstButton")

PrevButton ==
    /\ pager.buttons.prev
    /\ pager' = PaginationModule_render(goTo(pager, pager.index - 1), pager.mobile)
    /\ PagerDid("prevButton")

NumberButton(i) ==
    /\ i \in pager.buttons.numbers
    /\ pager' = PaginationModule_render(goTo(pager, i), pager.mobile)
    /\ PagerDid("numberButton")

NextButton ==
    /\ pager.buttons.next
    /\ pager' = PaginationModule_render(goTo(pager, pager.index + 1), pager.mobile)
    /\ PagerDid("nextButton")

LastButton ==
    /\ pager.buttons.last
    /\ pager' = PaginationModule_render(
                    goTo(pager, PaginationModule_getTotalPages(pager)), pager.mobile)
    /\ PagerDid("lastButton")

NextPager ==
    \/ \E count \in PagerCounts : PaginationModule_setTotalCount(count)
    \/ \E size \in PagerSizes : PaginationModule_setPageSize(size)
    \/ next
    \/ prev
    \/ first
    \/ last
    \/ \E mobile \in BOOLEAN : PagerRender(mobile)
    \/ FirstButton
    \/ PrevButton
    \/ \E i \in 1..(MaxCount + 1) : NumberButton(i)
    \/ NextButton
    \/ LastButton

SpecPager == InitPager /\ [][NextPager]_vars

\* the operations that go through #goTo
GoToOps ==
    {"next", "prev", "first", "last", "firstButton", "prevButton", "numberButton",
     "nextButton", "lastButton"}

\* C18: first(), prev(), next(), last() and the page-number buttons leave
\* state.index within 1..getTotalPages() whatever page was requested, and
\* onPageChange is called with that index
C18_GoToClamps ==
    lastOp \in GoToOps =>
        /\ 1 <= pager.index
        /\ pager.index <= PaginationModule_getTotalPages(pager)
        /\ pager.onPageChange = <<pager.index, pager.pageSize>>

\* the calls named by the claim below
PagerCalls == {"setPageSize", "setTotalCount", "next", "prev", "first", "last"}

\* C21: after any sequence of setPageSize, setTotalCount, next, prev, first
\* and last calls the state of the module is well formed: pageSize > 0,
\* getTotalPages() >= 1 and 1 <= index <= getTotalPages()
C21_PagerWellFormed ==
    lastOp \in PagerCalls =>
        /\ pager.pageSize > 0
        /\ PaginationModule_getTotalPages(pager) >= 1
        /\ 1 <= pager.index
        /\ pager.index <= PaginationModule_getTotalPages(pager)

(***************************************************************************)
(* The footer aggregates: grids with aggregate columns are drawn, then     *)
(* rendered and paged.                                                     *)
(***************************************************************************)
\* number of operations on a drawn grid
FooterSteps == 5

\* data arrays, one for each set of at most MaxRows rows
FooterData == {arr \in SortData : \A i, j \in DOMAIN arr : i < j => arr[i] < arr[j]}

PlainColumn == ColSettings(TRUE, FALSE, TRUE, FALSE, "none", "none", "none", "none")
HiddenColumn == ColSettings(FALSE, FALSE, FALSE, FALSE, "none", "none", "none", "none")

\* column registries: gender is always a plain column
FooterSettings ==
    {[gender |-> PlainColumn, v |-> WithAggregate(PlainColumn, "sum", <<>>)],
     [gender |-> PlainColumn, v |-> WithAggregate(PlainColumn, "avg", <<"O", "r", "t">>)],
     [gender |-> PlainColumn, v |-> WithAggregate(PlainColumn, "count", <<>>)],
     [gender |-> PlainColumn, age |-> WithAggregate(PlainColumn, "avg", <<>>)],
     [gender |-> PlainColumn, age |-> WithAggregate(PlainColumn, "sum", <<>>),
      name |-> WithAggregate(PlainColumn, "avg", <<>>)],
     [gender |-> PlainColumn, age |-> WithAggregate(PlainColumn, "rowCount", <<>>),
      name |-> WithAggregate(PlainColumn, "count", <<>>)],
     [gender |-> PlainColumn, v |-> WithAggregate(HiddenColumn, "sum", <<>>)],
     [gender |-> PlainColumn]}

InitFooter ==
    /\ data \in FooterData
    /\ totalCount = Len(data)
    /\ usePagination = FALSE
    /\ index = 1
    /\ pageSize = DefaultPageSize
    /\ _currentViewData = <<>>
    /\ _currentViewIndices = <<>>
    /\ enableSelection = FALSE
    /\ selectedRows = {}
    /\ enableGlobalSearchBar = FALSE
    /\ globalSearch \in {<<>>, <<"k">>}
    /\ columnSettings \in FooterSettings
    /\ sortKey = NoKey
    /\ sortOrder = "asc"
    /\ activeFilters \in {EmptyMap, [k \in {"gender"} |-> <<Str(<<"E">>)>>]}
    /\ columnSearches = EmptyMap
    /\ dom = NoDom
    /\ lastOp = "constructor"
    /\ steps = 0
    /\ engine \in {"runs"}
    /\ pager = NoPager
    /\ actionColumns = <<>>
    /\ buttons = NoActionButtons
    /\ options = DefaultOptions
    /\ call = NoCall

FooterSession == steps < FooterSteps

NextFooter ==
    \/ FooterSession /\ \E enabled \in BOOLEAN : enablePagination(enabled)
    \/ FooterSession /\ \E size \in PageSizeInputs : setPageSize(size)
    \/ FooterSession /\ render
    \/ FooterSession /\ \E button \in {"first", "prev", "next", "last"} : PageClick(button)
    \/ FooterSession /\ \E i \in 1..MaxIndex : PageNumberClick(i)

SpecFooter == InitFooter /\ [][NextFooter]_vars

\* C22: the footer aggregates are computed over all rows that pass the global
\* search, the column searches and the active filters, not over the page:
\* changing the page index or the page size and enabling or disabling
\* pagination never changes an aggregate
C22_AggregatesIgnorePaging ==
    /\ [](dom.rendered => \A rows \in {PassingRows} : dom.tfoot = FooterCells(rows))
    /\ [][dom.rendered => dom.tfoot' = dom.tfoot]_vars

\* a paged render that shows fewer numeric rows than pass
C22_Witness ==
    /\ lastOp \in {"page", "pageNumber"}
    /\ index = 2
    /\ pageSize = 1
    /\ "v" \in DOMAIN dom.tfoot
    /\ DOMAIN activeFilters # {}
    /\ Len(PassingRows) = 3
    /\ dom.tfoot["v"] = <<"4", "0">>

\* the footer cell of a column without its label
CellResult(key) ==
    IF columnSettings[key].aggregateLabel # <<>>
    THEN SubSeq(dom.tfoot[key], Len(columnSettings[key].aggregateLabel) + 3, Len(dom.tfoot[key]))
    ELSE dom.tfoot[key]

\* the sum of the values under key that parse as numbers, over the first n rows
RECURSIVE NumericSum(_, _, _)
NumericSum(rows, key, n) ==
    IF n = 0 THEN 0
    ELSE NumericSum(rows, key, n - 1)
             + (IF isNaN(parseFloat(RowField(rows[n], key))) THEN 0
                ELSE parseFloat(RowField(rows[n], key)).n)

\* the number of values under key that parse as numbers
NumericCount(rows, key) ==
    Cardinality({i \in DOMAIN rows : ~isNaN(parseFloat(RowField(rows[i], key)))})

\* text is a number written with two decimals
IsTwoDecimals(text) ==
    /\ Len(text) >= 4
    /\ text[Len(text) - 2] = "."
    /\ \A i \in DOMAIN text : i # Len(text) - 2 => text[i] \in DecimalDigits

\* the number of hundredths written by a text with two decimals
Hundredths(text) ==
    DigitsValue(SubSeq(text, 1, Len(text) - 3) \o SubSeq(text, Len(text) - 1, Len(text)))

Abs(k) == IF k < 0 THEN 0 - k ELSE k

\* text is total / count rounded to the nearest hundredth
IsRoundedMean(text, total, count) ==
    /\ IsTwoDecimals(text)
    /\ 2 * Abs(Hundredths(text) * count - 100 * total) <= count

\* text is total / count
IsMean(text, total, count) ==
    /\ IsTwoDecimals(text)
    /\ Hundredths(text) * count = 100 * total

\* the "sum" and "count" cells of a rendered footer, over rows
SumAndCountCells(rows) ==
    \A key \in DOMAIN dom.tfoot :
        /\ columnSettings[key].aggregate = "sum" =>
               CellResult(key) = String(Num(NumericSum(rows, key, Len(rows))))
        /\ columnSettings[key].aggregate = "count" =>
               CellResult(key) = Digits(NumericCount(rows, key))

\* the original statement about "avg": sum divided by the count, or 0
AvgCellsAreMeans(rows) ==
    \A key \in DOMAIN dom.tfoot :
        columnSettings[key].aggregate = "avg" =>
            IF NumericCount(rows, key) = 0 THEN CellResult(key) = <<"0">>
            ELSE \A text \in {CellResult(key)} :
                     IsMean(text, NumericSum(rows, key, Len(rows)), NumericCount(rows, key))

\* "avg" as the code computes it: the mean rounded to two decimals
AvgCellsAreRoundedMeans(rows) ==
    \A key \in DOMAIN dom.tfoot :
        columnSettings[key].aggregate = "avg" =>
            IF NumericCount(rows, key) = 0 THEN CellResult(key) = <<"0">>
            ELSE \A text \in {CellResult(key)} :
                     IsRoundedMean(text, NumericSum(rows, key, Len(rows)),
                                   NumericCount(rows, key))

C30_ResetFrame ==
    [][lastOp' = "reset" =>
           /\ globalSearch' = <<>>
           /\ DOMAIN columnSearches' = {}
           /\ DOMAIN activeFilters' = {}
           /\ sortKey' = NoKey
           /\ sortOrder' = "asc"
           /\ index' = 1
           /\ UNCHANGED <<data, pageSize, columnSettings, selectedRows>>]_vars

\* a reset of a paged grid with three pages of one row
C30_Witness ==
    /\ lastOp = "reset"
    /\ usePagination /\ pageSize = 1 /\ index = 1
    /\ Len(data) = 3 /\ dom.totalPages = 3

(***************************************************************************)
(* The body of the table: row numbers and action buttons.  A callback of   *)
(* an action is code of the page: it returns, throws, or returns a promise *)
(* that the page settles later; the callbacks of the model write nothing   *)
(* to the grid.  A click reaches a handler only on a button that is in the *)
(* document and not disabled.                                              *)
(***************************************************************************)
\* number of operations of a session on the body
BodySteps == 4
\* page size of the sessions on the body
BodyPageSize == 2

\* the configuration of the grid that a setter does not write
gridState == <<data, index, pageSize, selectedRows, columnSettings, pipelineState, flags>>

\* a setter has been called with args
Called(op, args, threw) ==
    /\ lastOp' = op /\ steps' = steps + 1 /\ engine' = engine /\ pager' = pager
    /\ call' = [op |-> op, args |-> args, threw |-> threw]

\* the objects passed to addActionColumn: label and whether onClick is a function
ActionInputs ==
    <<[label |-> Str(<<"S", "i", "l">>), onClick |-> TRUE],
      [label |-> Str(<<"D">>), onClick |-> FALSE],
      [label |-> Undefined, onClick |-> TRUE],
      [label |-> Str(<<>>), onClick |-> TRUE]>>

\* typeof action !== "object" || !action.label; reading the label of null throws
addActionColumnThrows(action) ==
    action.t # "object" \/ ~Truthy(ActionInputs[action.n].label)

addActionColumn(action) ==
    /\ actionColumns' = IF addActionColumnThrows(action) THEN actionColumns
                        ELSE Append(actionColumns, ActionInputs[action.n])
    /\ Called("addActionColumn", <<action>>, addActionColumnThrows(action))
    /\ UNCHANGED <<gridState, viewState, options>>

enableRowNumbers(enabled) ==
    /\ options' = [options EXCEPT !.showRowNumbers = enabled]
    /\ Called("enableRowNumbers", <<enabled>>, FALSE)
    /\ UNCHANGED <<gridState, viewState, actionColumns>>

\* a faulty start of the click handler: the button stays enabled
clickStart_enabled(b) == b

\* btn.prop("disabled", true)
clickStart(b) == [b EXCEPT !.disabled = TRUE]

\* action.onClick(row) is called
invoke(b) ==
    [b EXCEPT !.calls = @ + 1, !.inflight = @ + 1, !.sawEnabled = @ \/ ~b.disabled]

\* a faulty catch: the error leaves the handler
handlerCatch_rethrows(bs) == [bs EXCEPT !.uncaught = @ + 1]

\* catch (err) { console.error(...) }
handlerCatch(bs) == [bs EXCEPT !.logged = @ + 1]

\* a faulty end of the handler: the button is left as it is
handlerFinally_none(b) == b

\* finally { btn.prop("disabled", false) }
handlerFinally(b) == [b EXCEPT !.disabled = FALSE]

\* the handler of button id up to the call of onClick
Started(bs, id) == [bs EXCEPT !.btn[id] = invoke(clickStart(@))]

\* the rest of the handler once the invocation has finished
Completed(bs, id, failed) ==
    [(IF failed THEN handlerCatch(bs) ELSE bs) EXCEPT
        !.btn[id] = handlerFinally([@ EXCEPT !.inflight = @ - 1])]

\* what the callback does when it is called
ClickOutcomes == {"returns", "throws", "awaits"}

ClickOp(outcome) ==
    CASE outcome = "returns" -> "actionReturned"
      [] outcome = "throws" -> "actionThrew"
      [] OTHER -> "actionAwaits"

\* a click on the action button id
ActionClick(id, outcome) ==
    /\ dom.rendered
    /\ id \in DOMAIN buttons.btn
    /\ buttons.btn[id].attached /\ ~buttons.btn[id].disabled
    /\ actionColumns[buttons.btn[id].action].onClick
    /\ buttons' = IF outcome = "awaits" THEN Started(buttons, id)
                  ELSE Completed(Started(buttons, id), id, outcome = "throws")
    /\ Did(ClickOp(outcome))
    /\ UNCHANGED <<gridState, totalCount, _currentViewData, _currentViewIndices, dom>>

\* the promise a callback returned to the handler of button id is settled
ActionSettle(id, rejected) ==
    /\ id \in DOMAIN buttons.btn
    /\ buttons.btn[id].inflight > 0
    /\ buttons' = Completed(buttons, id, rejected)
    /\ Did(IF rejected THEN "actionRejected" ELSE "actionResolved")
    /\ UNCHANGED <<gridState, totalCount, _currentViewData, _currentViewIndices, dom>>

SortableAge == [age |-> ColSettings(TRUE, TRUE, FALSE, FALSE, "none", "none", "none", "none")]

InitBody ==
    /\ data \in {<<2, 1, 4>>, <<1, 2>>}
    /\ totalCount = Len(data)
    /\ usePagination \in BOOLEAN
    /\ index = 1
    /\ pageSize = IF usePagination THEN BodyPageSize ELSE DefaultPageSize
    /\ _currentViewData = <<>>
    /\ _currentViewIndices = <<>>
    /\ enableSelection = TRUE
    /\ selectedRows \in {{}, {1}}
    /\ enableGlobalSearchBar = FALSE
    /\ globalSearch = <<>>
    /\ columnSettings = SortableAge
    /\ sortKey = NoKey
    /\ sortOrder = "asc"
    /\ activeFilters = EmptyMap
    /\ columnSearches = EmptyMap
    /\ dom = NoDom
    /\ lastOp = "constructor"
    /\ steps = 0
    /\ engine \in {"runs"}
    /\ pager = NoPager
    /\ actionColumns \in {<<>>, <<ActionInputs[1]>>}
    /\ buttons = NoActionButtons
    /\ options \in {[DefaultOptions EXCEPT !.showRowNumbers = Bool(b)] : b \in BOOLEAN}
    /\ call = NoCall

BodySession == steps < BodySteps

NextBody ==
    \/ BodySession /\ \E action \in {Obj(1), Obj(2), Obj(3), Null} : addActionColumn(action)
    \/ BodySession /\ \E enabled \in {Bool(TRUE), Bool(FALSE)} : enableRowNumbers(enabled)
    \/ BodySession /\ render
    \/ BodySession /\ SortClick("age")
    \/ BodySession /\ \E button \in {"next", "prev"} : PageClick(button)
    \/ BodySession /\ \E id \in DOMAIN buttons.btn, outcome \in ClickOutcomes :
                          ActionClick(id, outcome)
    \/ BodySession /\ \E id \in DOMAIN buttons.btn, rejected \in BOOLEAN :
                          ActionSettle(id, rejected)

SpecBody == InitBody /\ [][NextBody]_vars

\* the action buttons that exist
Buttons == {buttons.btn[id] : id \in DOMAIN buttons.btn}

\* C24: a clicked action button is disabled before onClick(row) runs and is
\* enabled again once the callback has finished, whether it returned, threw, or
\* its promise resolved or rejected: a button with no invocation in flight is
\* never disabled
C24_ButtonReenabled ==
    \A b \in Buttons :
        /\ ~b.sawEnabled
        /\ b.inflight = 0 => ~b.disabled

\* a button whose promise was rejected, enabled again
C24_Witness ==
    /\ lastOp = "actionRejected"
    /\ \E b \in Buttons : b.attached /\ b.calls = 2 /\ b.inflight = 0 /\ ~b.disabled

\* C25: at most one invocation of onClick is in flight per rendered action
\* button; while the promise of a click is pending no click on that button
\* starts another invocation
C25_OneInFlight ==
    /\ [](\A b \in Buttons : b.inflight <= 1)
    /\ [][\A id \in DOMAIN buttons.btn :
              (buttons.btn[id].inflight > 0 /\ id \in DOMAIN buttons'.btn)
                  => buttons'.btn[id].calls = buttons.btn[id].calls]_vars

\* the old and the new button of a row, each with an invocation in flight
C25_Witness ==
    \E b, c \in Buttons :
        /\ b.row = c.row /\ b.action = c.action
        /\ b.attached /\ ~c.attached
        /\ b.inflight = 1 /\ c.inflight = 1

\* C26: when an action callback throws or its promise rejects, the error is
\* logged and leaves the handler no further; data, search, filter and sort
\* state, page index and selection stay as they were
C26_FailureContained ==
    /\ [](buttons.uncaught = 0)
    /\ [][lastOp' \in {"actionThrew", "actionRejected"} =>
              /\ buttons'.logged = buttons.logged + 1
              /\ UNCHANGED <<data, pipelineState, index, selectedRows>>]_vars

\* a rejected promise on the second page with a selected row
C26_Witness ==
    /\ lastOp = "actionRejected"
    /\ buttons.logged = 1
    /\ index = 2 /\ selectedRows = {1}

\* C28: the number shown for a row comes from its position in the raw data
\* array: while the data stay the same, a row shows the same number in every
\* render, whatever the search, filter, sort or page state
C28_RowNumberIsStable ==
    [][(data' = data /\ dom.rowNumbers # <<>> /\ dom'.rowNumbers # <<>>) =>
           \A i \in DOMAIN _currentViewData, j \in DOMAIN _currentViewData' :
               _currentViewData[i] = _currentViewData'[j] =>
                   dom.rowNumbers[i] = dom'.rowNumbers[j]]_vars

(***************************************************************************)
(* The configuration setters called with any value.  The model keeps the   *)
(* truthiness of the three flags that the pipeline reads (every read of    *)
(* them in the code is a truthiness test) and the very value of the fields *)
(* of options that are stored without a check.                             *)
(***************************************************************************)
\* number of setter calls of a session
ConfigSteps == 2

\* the arrays and the settings objects that Arr(k) and Obj(k) stand for
ConfigArrays == <<<<>>, <<1, 2>>>>
ConfigSettings == <<SortableAge>>

\* the values passed to the setters
ConfigValues ==
    {Bool(TRUE), Bool(FALSE), Str(<<"a", "g", "e">>), Str(<<" ", "x", " ">>), Str(<<" ">>),
     Num(1), Num(0), Null, Arr(1), Arr(2), Obj(1)}

\* the key a string names in columnSettings
KeyOf(s) == IF s = <<"a", "g", "e">> THEN "age" ELSE "x"

setDataCall(d) ==
    /\ IF d.t # "array" THEN UNCHANGED <<data, totalCount>>
       ELSE data' = ConfigArrays[d.n] /\ totalCount' = Len(ConfigArrays[d.n])
    /\ Called("setData", <<d>>, d.t # "array")
    /\ UNCHANGED <<index, pageSize, selectedRows, columnSettings, pipelineState, flags,
                   _currentViewData, _currentViewIndices, dom, buttons, options,
                   actionColumns>>

\* the frame of a setter that writes options only
optionsFrame == <<gridState, viewState, actionColumns>>

setTableIdThrows(id) == id.t # "str" \/ trim(id.s) = <<>>

setTableId(id) ==
    /\ options' = IF setTableIdThrows(id) THEN options
                  ELSE [options EXCEPT !.tableId = trim(id.s)]
    /\ Called("setTableId", <<id>>, setTableIdThrows(id))
    /\ UNCHANGED optionsFrame

setTableClass(classes) ==
    /\ options' = IF classes.t # "str" THEN options
                  ELSE [options EXCEPT !.tableClasses = trim(classes.s)]
    /\ Called("setTableClass", <<classes>>, classes.t # "str")
    /\ UNCHANGED optionsFrame

setTitle(title) ==
    /\ options' = IF title.t # "str" THEN options
                  ELSE [options EXCEPT !.tableTitle = trim(title.s), !.showTitle = TRUE]
    /\ Called("setTitle", <<title>>, title.t # "str")
    /\ UNCHANGED optionsFrame

setColumnThrows(key, settings) ==
    \/ key.t # "str" \/ trim(key.s) = <<>>
    \/ settings.t # "object"

setColumnCall(key, settings) ==
    /\ columnSettings' = IF setColumnThrows(key, settings) THEN columnSettings
                         ELSE Put(columnSettings, KeyOf(key.s), ConfigSettings[settings.n])
    /\ Called("setColumn", <<key, settings>>, setColumnThrows(key, settings))
    /\ UNCHANGED <<data, index, pageSize, selectedRows, pipelineState, flags, viewState,
                   options, actionColumns>>

setHeaderContainerStyle(style) ==
    /\ options' = IF style.t # "str" THEN options
                  ELSE [options EXCEPT !.headerContainerStyle = trim(style.s)]
    /\ Called("setHeaderContainerStyle", <<style>>, style.t # "str")
    /\ UNCHANGED optionsFrame

setFooterContainerStyle(style) ==
    /\ options' = IF style.t # "str" THEN options
                  ELSE [options EXCEPT !.footerContainerStyle = trim(style.s)]
    /\ Called("setFooterContainerStyle", <<style>>, style.t # "str")
    /\ UNCHANGED optionsFrame

enablePaginationCall(enabled) ==
    /\ usePagination' = Truthy(enabled)
    /\ Called("enablePagination", <<enabled>>, FALSE)
    /\ UNCHANGED <<data, index, pageSize, selectedRows, columnSettings, pipelineState,
                   enableSelection, enableGlobalSearchBar, viewState, options, actionColumns>>

enableRowSelectionCall(enabled) ==
    /\ enableSelection' = Truthy(enabled)
    /\ selectedRows' = IF ~Truthy(enabled) THEN {} ELSE selectedRows
    /\ Called("enableRowSelection", <<enabled>>, FALSE)
    /\ UNCHANGED <<data, index, pageSize, columnSettings, pipelineState, usePagination,
                   enableGlobalSearchBar, viewState, options, actionColumns>>

enableGlobalSearchCall(enabled) ==
    /\ enableGlobalSearchBar' = Truthy(enabled)
    /\ Called("enableGlobalSearch", <<enabled>>, FALSE)
    /\ UNCHANGED <<data, index, pageSize, selectedRows, columnSettings, pipelineState,
                   usePagination, enableSelection, viewState, options, actionColumns>>

enableTotalCountInfoMode(enabled) ==
    /\ options' = [options EXCEPT !.totalCountInfo = enabled]
    /\ Called("enableTotalCountInfoMode", <<enabled>>, FALSE)
    /\ UNCHANGED optionsFrame

setGlobalSearchPlaceholder(text) ==
    /\ options' = [options EXCEPT !.globalSearchPlaceholder = text]
    /\ Called("setGlobalSearchPlaceholder", <<text>>, FALSE)
    /\ UNCHANGED optionsFrame

ConfigSession == steps < ConfigSteps

NextConfig ==
    \/ ConfigSession /\ \E d \in ConfigValues : setDataCall(d)
    \/ ConfigSession /\ \E id \in ConfigValues : setTableId(id)
    \/ ConfigSession /\ \E classes \in ConfigValues : setTableClass(classes)
    \/ ConfigSession /\ \E title \in ConfigValues : setTitle(title)
    \/ ConfigSession /\ \E key \in ConfigValues, settings \in ConfigValues :
                            setColumnCall(key, settings)
    \/ ConfigSession /\ \E action \in ConfigValues \cup {Obj(3)} : addActionColumn(action)
    \/ ConfigSession /\ \E style \in ConfigValues : setHeaderContainerStyle(style)
    \/ ConfigSession /\ \E style \in ConfigValues : setFooterContainerStyle(style)
    \/ ConfigSession /\ \E enabled \in ConfigValues : enablePaginationCall(enabled)
    \/ ConfigSession /\ \E enabled \in ConfigValues : enableRowNumbers(enabled)
    \/ ConfigSession /\ \E enabled \in ConfigValues : enableRowSelectionCall(enabled)
    \/ ConfigSession /\ \E enabled \in ConfigValues : enableGlobalSearchCall(enabled)
    \/ ConfigSession /\ \E enabled \in ConfigValues : enableTotalCountInfoMode(enabled)
    \/ ConfigSession /\ \E text \in ConfigValues : setGlobalSearchPlaceholder(text)

SpecConfig == Init /\ [][NextConfig]_vars

\* the type each setter documents for its argument
ArgumentType(op) ==
    CASE op = "setData" -> "array"
      [] op \in {"setColumn", "addActionColumn"} -> "object"
      [] op \in {"enablePagination", "enableRowNumbers", "enableRowSelection",
                 "enableGlobalSearch", "enableTotalCountInfoMode"} -> "bool"
      [] OTHER -> "str"

\* the last call was given an argument of the wrong type
WrongType(c) ==
    IF c.op = "setColumn" THEN c.args[1].t # "str" \/ c.args[2].t # "object"
    ELSE c.args[1].t # ArgumentType(c.op)

\* C27: every configuration setter raises an error when given an argument of
\* the wrong type and leaves the state of the widget unchanged
C27_SettersReject ==
    [][(steps' = steps + 1 /\ WrongType(call')) =>
           /\ call'.threw
           /\ UNCHANGED <<gridState, viewState, options, actionColumns>>]_vars

\* C29: after every render the i-th view index is the position in data of the
\* i-th view row, every view index is a position of data, and distinct view
\* rows, structurally equal ones included, have distinct view indices
C29_ViewIndicesAreRawPositions ==
    lastOp \in RenderOps =>
        /\ Len(_currentViewIndices) = Len(_currentViewData)
        /\ \A i \in DOMAIN _currentViewIndices :
               /\ _currentViewIndices[i] \in 0..(Len(data) - 1)
               /\ data[_currentViewIndices[i] + 1] = _currentViewData[i]
        /\ \A i, j \in DOMAIN _currentViewIndices :
               _currentViewData[i] # _currentViewData[j]
                   => _currentViewIndices[i] # _currentViewIndices[j]

\* two structurally equal rows in a sorted view
C29_Witness ==
    /\ lastOp = "sort"
    /\ _currentViewData = <<1, 4, 2>>
    /\ _currentViewIndices = <<1, 2, 0>>

(***************************************************************************)
(* The footer container: the record-count info text and the pagination.    *)
(***************************************************************************)
\* number of operations of a session on the footer container
InfoSteps == 5

InitInfo ==
    /\ data \in DataArrays
    /\ totalCount = Len(data)
    /\ usePagination \in BOOLEAN
    /\ index = 1
    /\ pageSize \in IF usePagination THEN {1, 2} ELSE {DefaultPageSize}
    /\ _currentViewData = <<>>
    /\ _currentViewIndices = <<>>
    /\ enableSelection = FALSE
    /\ selectedRows = {}
    /\ enableGlobalSearchBar = FALSE
    /\ globalSearch = <<>>
    /\ columnSettings = EmptyMap
    /\ sortKey = NoKey
    /\ sortOrder = "asc"
    /\ activeFilters = EmptyMap
    /\ columnSearches = EmptyMap
    /\ dom = NoDom
    /\ lastOp = "constructor"
    /\ steps = 0
    /\ engine \in {"runs"}
    /\ pager = NoPager
    /\ actionColumns = <<>>
    /\ buttons = NoActionButtons
    /\ options \in {[DefaultOptions EXCEPT !.totalCountInfo = Bool(b)] : b \in BOOLEAN}
    /\ call = NoCall

InfoSession == steps < InfoSteps

NextInfo ==
    \/ InfoSession /\ \E d \in DataArrays \cup {<<2>>} : setData(d)
    \/ InfoSession /\ clearData
    \/ InfoSession /\ \E enabled \in BOOLEAN : enablePagination(enabled)
    \/ InfoSession /\ \E enabled \in BOOLEAN : enableTotalCountInfoMode(Bool(enabled))
    \/ InfoSession /\ render
    \/ InfoSession /\ \E button \in {"first", "prev", "next", "last"} : PageClick(button)

SpecInfo == InitInfo /\ [][NextInfo]_vars

\* C31: with totalCountInfo enabled and pagination disabled, a render with at
\* least one matching row shows the footer container with the info text
C31_InfoWithoutPagination ==
    (lastOp \in RenderOps /\ Truthy(options.totalCountInfo) /\ ~usePagination
        /\ totalCount > 0)
        => (dom.footer /\ dom.info.shown)

\* C32: whenever the info text is displayed, X is the number of matching rows,
\* Y the number of rows displayed on the page, Y >= 1, and 1 <= A <= B
C32_InfoNumbers ==
    (lastOp \in RenderOps /\ dom.info.shown) =>
        /\ dom.info.total = Len(PassingRows)
        /\ dom.info.count = Len(_currentViewData)
        /\ dom.info.count >= 1
        /\ 1 <= dom.info.page /\ dom.info.page <= dom.info.pages


(***************************************************************************)
(* The view under sort clicks and filter dropdowns: a grid with three     *)
(* columns, two of them filterable, one with a function aggregate.        *)
(***************************************************************************)
ViewSteps == 4
ViewPageSize == 2

\* the data arrays given to the constructor
ViewData == {<<1, 2, 3>>, <<2, 5, 1>>, <<3, 2>>}

\* setColumn for gender, age and name
ViewSettings ==
    [gender |-> ColSettings(TRUE, TRUE, TRUE, FALSE, "none", "none", "none", "none"),
     age |-> ColSettings(TRUE, TRUE, TRUE, FALSE, "none", "none", "none", "none"),
     name |-> WithAggregate(ColSettings(TRUE, TRUE, FALSE, FALSE, "none", "none", "none", "none"),
                            "joinNames", <<>>)]

InitView ==
    /\ data \in ViewData
    /\ totalCount = Len(data)
    /\ usePagination \in BOOLEAN
    /\ index = 1
    /\ pageSize = IF usePagination THEN ViewPageSize ELSE DefaultPageSize
    /\ _currentViewData = <<>>
    /\ _currentViewIndices = <<>>
    /\ enableSelection = FALSE
    /\ selectedRows = {}
    /\ enableGlobalSearchBar = FALSE
    /\ globalSearch = <<>>
    /\ columnSettings = ViewSettings
    /\ sortKey = NoKey
    /\ sortOrder = "asc"
    /\ activeFilters = EmptyMap
    /\ columnSearches = EmptyMap
    /\ dom = NoDom
    /\ lastOp = "constructor"
    /\ steps = 0
    /\ engine \in {"runs"}
    /\ pager = NoPager
    /\ actionColumns = <<>>
    /\ buttons = NoActionButtons
    /\ options = DefaultOptions
    /\ call = NoCall

ViewSession == steps < ViewSteps

\* the values a row of the model can have under a filterable column
ViewOptions(key) == {FilterValue(ViewSettings[key], row, key) : row \in RowIds}

NextView ==
    \/ ViewSession /\ render
    \/ ViewSession /\ \E key \in DOMAIN ViewSettings : SortClick(key)
    \/ ViewSession /\ \E key \in DOMAIN ViewSettings, checked \in BOOLEAN :
                          FilterSelectAll(key, checked)
    \/ ViewSession /\ \E key \in DOMAIN ViewSettings, checked \in BOOLEAN :
                          \E option \in ViewOptions(key) : FilterOptionChange(key, option, checked)
    \/ ViewSession /\ \E button \in {"first", "prev", "next", "last"} : PageClick(button)
    \/ ViewSession /\ ResetClick

SpecView == InitView /\ [][NextView]_vars

\* the text of the footer cell of the column name when its aggregate function
\* is given the array rows
NamesCell(rows) == AggregateResult("joinNames", <<>>, rows)

\* C33, as stated: the function aggregate is invoked with the rows that pass
\* the global search, the column searches and the active filters, in the
\* order given by the current sort key and order, unpaginated
C33_FunctionAggregateGetsSortedRows ==
    lastOp \in RenderOps => dom.tfoot["name"] = NamesCell(FilteredSorted)

\* C33: the function aggregate is invoked with the rows that pass the global
\* search, the column searches and the active filters, in the order of the
\* raw data array whatever the sort key and order are, unpaginated
C33_FunctionAggregateGetsFilteredRows ==
    lastOp \in RenderOps => dom.tfoot["name"] = NamesCell(PassingRows)

\* a paged, filtered render sorted by age, descending: the page shows one
\* order, the aggregate function was given the other
C33_Witness ==
    /\ lastOp = "sort"
    /\ usePagination
    /\ sortKey = "age" /\ sortOrder = "desc"
    /\ "gender" \in DOMAIN activeFilters
    /\ Len(PassingRows) = 2
    /\ FilteredSorted # PassingRows
    /\ Len(_currentViewData) = 2
    /\ dom.tfoot["name"] = NamesCell(PassingRows)


(***************************************************************************)
(* The page index and the sort state under the handlers, under Spec.      *)
(***************************************************************************)
\* the handlers of the search boxes and of the filter dropdowns
SearchAndFilterOps == {"globalSearch", "columnSearch", "filterSelectAll", "filterOption"}

\* C34: every handler that changes the global search term, a column search
\* term or an active filter sets the page index to 1 before it renders, so
\* the page it renders is not empty when a row matches; a click on a sort
\* icon changes sortKey and sortOrder only and leaves the page index as it is
C34_SearchAndFilterGoToFirstPage ==
    [][/\ lastOp' \in SearchAndFilterOps =>
              /\ index' = 1
              /\ totalCount' > 0 => Len(_currentViewData') >= 1
       /\ lastOp' = "sort" =>
              /\ index' = index
              /\ UNCHANGED <<data, pageSize, selectedRows, columnSettings, globalSearch,
                             columnSearches, activeFilters, flags>>]_vars

\* a global search on a paged grid that left fewer rows than the data has,
\* rendered from the first page
C34_Witness ==
    /\ lastOp = "globalSearch"
    /\ usePagination
    /\ globalSearch # <<>>
    /\ index = 1
    /\ totalCount >= 1
    /\ totalCount < Len(data)
    /\ Len(_currentViewData) >= 1


\* C35: the clicks on the sort icon of one column take it from unsorted to
\* ascending, to descending and back to unsorted; a click on the icon of
\* another column starts that column at ascending; and sortOrder is "asc"
\* whenever sortKey is null
C35_SortCycle ==
    /\ [](sortKey = NoKey => sortOrder = "asc")
    /\ [][lastOp' = "sort" =>
              /\ sortKey = NoKey => (sortKey' # NoKey /\ sortOrder' = "asc")
              /\ (sortKey # NoKey /\ sortKey' = sortKey) =>
                     (sortOrder = "asc" /\ sortOrder' = "desc")
              /\ (sortKey # NoKey /\ sortKey' = NoKey) =>
                     (sortOrder = "desc" /\ sortOrder' = "asc")
              /\ sortKey' \notin {sortKey, NoKey} => sortOrder' = "asc"]_vars

\* the third click on one icon: the grid is unsorted again
C35_Witness ==
    /\ lastOp = "sort"
    /\ steps = ViewSteps
    /\ sortKey = NoKey
    /\ sortOrder = "asc"
    /\ Len(_currentViewData) >= 2


\* the rows of the data whose filter value under key is v
RowsWithValue(key, v) ==
    {row \in SeqRange(data) : FilterValue(columnSettings[key], row, key) = v}

\* C36: with one option v of the dropdown of a column checked and no other
\* option of that column, the view holds exactly the rows whose filter value
\* for the column is v, for numbers as well as for strings
C36_SingleOptionSelectsItsRows ==
    \A key \in DOMAIN activeFilters :
        (/\ lastOp = "filterOption"
         /\ DOMAIN activeFilters = {key}
         /\ Len(activeFilters[key]) = 1)
            => \E v \in SeqRange(allValues(key, columnSettings[key])) :
                   /\ String(v) = activeFilters[key][1].s
                   /\ SeqRange(FilteredSorted) = RowsWithValue(key, v)
                   /\ totalCount = Cardinality(RowsWithValue(key, v))


\* C37: after "select all" is checked in the dropdown of a column the view is
\* the one without a filter on the column: no row of the data is excluded by
\* it, whatever its filter value (0, "", null and undefined included)
C37_SelectAllExcludesNoRow ==
    \A key \in DOMAIN activeFilters :
        (/\ lastOp = "filterSelectAll"
         /\ activeFilters[key] = allValues(key, columnSettings[key]))
            => filterRows([k \in {key} |-> activeFilters[key]], data) = data


\* the view state is the effective default: no global search term, no column
\* search term that is not empty, no column with accepted values, no sort key,
\* page index 1
EffectiveDefault ==
    /\ globalSearch = <<>>
    /\ \A key \in DOMAIN columnSearches : columnSearches[key] = <<>>
    /\ \A key \in DOMAIN activeFilters : activeFilters[key] = <<>>
    /\ sortKey = NoKey
    /\ index = 1

\* C38: after every render the reset button is disabled exactly when the view
\* state is the effective default; an option of a filter dropdown that is
\* checked and then unchecked leaves the button disabled
C38_ResetDisabledIffDefault ==
    lastOp \in RenderOps => (dom.resetDisabled <=> EffectiveDefault)


\* C39: while the promise returned by an action callback for a row is pending,
\* no second invocation of that action for that row starts, even when the
\* table has been rendered again in the meantime
C39_OneInFlightPerRow ==
    \A i, j \in DOMAIN buttons.btn :
        (/\ i # j
         /\ buttons.btn[i].row = buttons.btn[j].row
         /\ buttons.btn[i].action = buttons.btn[j].action)
            => ~(buttons.btn[i].inflight > 0 /\ buttons.btn[j].inflight > 0)

====
